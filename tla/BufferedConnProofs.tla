------------------------- MODULE BufferedConnProofs -------------------------
(***************************************************************************)
(* Proofs about BufferedConn.  The stream is the sequence of packets that  *)
(* one gets by following a byte from the connection below back to the      *)
(* buffer; each operation moves a packet from one part of it to the next,  *)
(* cuts the buffer, lets it grow, or drops a packet.                       *)
(***************************************************************************)
EXTENDS BufferedConn, TLAPS, SequenceTheorems

Stream == sent \o writing \o writeCh \o inHand \o << <<flushed, accepted>> >>

(* No packet ends before it begins, or begins before an earlier one ends.  *)
Ordered(packets) ==
  /\ \A i \in 1..Len(packets) : packets[i][1] <= packets[i][2]
  /\ \A i, j \in 1..Len(packets) : i < j => packets[i][2] <= packets[j][1]

(* The inductive invariant: dropping packets keeps the stream in order, and *)
(* it has no gap as long as nothing was dropped.                           *)
StreamInv ==
  /\ Ordered(Stream)
  /\ ~closed => Contiguous(sent)
  /\ ~closed /\ Conn = "up" => Contiguous(Stream)

IInv == TypeOK /\ StreamInv

-----------------------------------------------------------------------------
(* Lemmas about sequences of packets.                                      *)

LEMMA PrefixIsGood ==
  ASSUME NEW s \in Seq(Packet), NEW t \in Seq(Packet)
  PROVE  /\ Ordered(s \o t) => Ordered(s)
         /\ Contiguous(s \o t) => Contiguous(s)
<1>1. /\ Len(s \o t) = Len(s) + Len(t) /\ Len(s) \in Nat /\ Len(t) \in Nat
      /\ \A i \in 1..Len(s) : (s \o t)[i] = s[i]
  BY ConcatProperties, LenProperties
<1>2. \A i \in 1..Len(s) : i \in 1..Len(s \o t)
  BY <1>1
<1>3. ASSUME Ordered(s \o t) PROVE Ordered(s)
  BY <1>1, <1>2, <1>3 DEF Ordered
<1>4. ASSUME Contiguous(s \o t) PROVE Contiguous(s)
  <2>1. SUFFICES ASSUME NEW i \in 1..Len(s)
                 PROVE  s[i][1] = (IF i = 1 THEN 0 ELSE s[i - 1][2])
    BY DEF Contiguous
  <2>2. i # 1 => i - 1 \in 1..Len(s)
    BY <1>1
  <2> QED  BY <1>1, <1>2, <1>4, <2>2 DEF Contiguous
<1> QED  BY <1>3, <1>4

(* A piece of a stream may be dropped without disturbing the order.        *)
LEMMA DropKeepsOrder ==
  ASSUME NEW s \in Seq(Packet), NEW t \in Seq(Packet), NEW u \in Seq(Packet),
         Ordered((s \o t) \o u)
  PROVE  Ordered(s \o u)
<1> DEFINE long == (s \o t) \o u
           short == s \o u
           old(i) == IF i <= Len(s) THEN i ELSE i + Len(t)
<1>1. /\ Len(s) \in Nat /\ Len(t) \in Nat /\ Len(u) \in Nat
      /\ s \o t \in Seq(Packet) /\ Len(s \o t) = Len(s) + Len(t)
      /\ Len(long) = Len(s) + Len(t) + Len(u)
      /\ Len(short) = Len(s) + Len(u)
  BY ConcatProperties, LenProperties
<1>2. ASSUME NEW i \in 1..Len(short)
      PROVE  old(i) \in 1..Len(long) /\ short[i] = long[old(i)]
  <2>1. CASE i <= Len(s)
    <3>1. i \in 1..Len(s) /\ i \in 1..Len(s \o t)
      BY <1>1, <2>1
    <3>2. short[i] = s[i] /\ (s \o t)[i] = s[i] /\ long[i] = (s \o t)[i]
      BY <3>1, <1>1, ConcatProperties
    <3> QED  BY <2>1, <3>2, <1>1
  <2>2. CASE ~(i <= Len(s))
    <3>1. /\ i - Len(s) \in 1..Len(u)
          /\ i \in (Len(s) + 1)..(Len(s) + Len(u))
          /\ i + Len(t) \in (Len(s \o t) + 1)..(Len(s \o t) + Len(u))
          /\ (i + Len(t)) - Len(s \o t) = i - Len(s)
      BY <1>1, <2>2
    <3>2. short[i] = u[i - Len(s)] /\ long[i + Len(t)] = u[(i + Len(t)) - Len(s \o t)]
      BY <3>1, <1>1, ConcatProperties
    <3> QED  BY <2>2, <3>1, <3>2, <1>1
  <2> QED  BY <2>1, <2>2
<1>3. ASSUME NEW i \in 1..Len(short), NEW j \in 1..Len(short), i < j
      PROVE  old(i) < old(j)
  BY <1>1, <1>3
<1>4. Ordered(long)
  OBVIOUS
<1> HIDE DEF long, short, old
<1>5. Ordered(short)
  BY <1>2, <1>3, <1>4 DEF Ordered
<1> QED  BY <1>5 DEF short

(* The last packet of a stream may grow.                                   *)
LEMMA LastMayGrow ==
  ASSUME NEW s \in Seq(Packet),
         NEW a \in 0..MaxBytes, NEW b \in 0..MaxBytes, NEW c \in 0..MaxBytes, b <= c
  PROVE  /\ Ordered(s \o << <<a, b>> >>) => Ordered(s \o << <<a, c>> >>)
         /\ Contiguous(s \o << <<a, b>> >>) => Contiguous(s \o << <<a, c>> >>)
<1> DEFINE old == s \o << <<a, b>> >>
           new == s \o << <<a, c>> >>
           n == Len(s) + 1
<1>1. /\ Len(s) \in Nat /\ Len(old) = n /\ Len(new) = n
      /\ \A i \in 1..Len(s) : old[i] = s[i] /\ new[i] = s[i]
      /\ old[n] = <<a, b>> /\ new[n] = <<a, c>>
  BY ConcatProperties, LenProperties DEF Packet
<1>2. MaxBytes \in Nat
  BY BufferedConnAssumption
<1>3. \A i \in 1..n : i = n \/ (i \in 1..Len(s) /\ i < n)
  BY <1>1
<1>4. n \in Nat \ {0} /\ n \in 1..n
  BY <1>1
<1>5. \A i \in 1..n : new[i][1] = old[i][1] /\ (i < n => new[i] = old[i])
  <2> SUFFICES ASSUME NEW i \in 1..n
               PROVE  new[i][1] = old[i][1] /\ (i < n => new[i] = old[i])
    OBVIOUS
  <2>1. CASE i = n  BY <1>1, <1>4, <2>1
  <2>2. CASE i \in 1..Len(s) /\ i < n  BY <1>1, <2>2
  <2> QED  BY <1>3, <2>1, <2>2
<1>6. old[n][2] = b /\ new[n][2] = c /\ old[n][1] = a
  BY <1>1
<1> HIDE DEF old, new, n
<1>7. ASSUME Ordered(old) PROVE Ordered(new)
  <2>1. \A i \in 1..n : new[i][1] <= new[i][2]
    <3> SUFFICES ASSUME NEW i \in 1..n PROVE new[i][1] <= new[i][2]
      OBVIOUS
    <3>1. old[i][1] <= old[i][2]
      BY <1>1, <1>7 DEF Ordered
    <3>2. CASE i = n
      <4>1. a <= b
        BY <3>1, <3>2, <1>6
      <4>2. a <= c
        BY <4>1, <1>2
      <4> QED  BY <4>2, <3>2, <1>5, <1>6
    <3>3. CASE i < n  BY <3>1, <3>3, <1>5
    <3> QED  BY <3>2, <3>3, <1>3
  <2>2. \A i, j \in 1..n : i < j => new[i][2] <= new[j][1]
    <3> SUFFICES ASSUME NEW i \in 1..n, NEW j \in 1..n, i < j
                 PROVE  new[i][2] <= new[j][1]
      OBVIOUS
    <3>1. i < n
      BY <1>4
    <3>2. old[i][2] <= old[j][1]
      BY <1>1, <1>7 DEF Ordered
    <3> QED  BY <3>1, <3>2, <1>5
  <2> QED  BY <1>1, <2>1, <2>2 DEF Ordered
<1>8. ASSUME Contiguous(old) PROVE Contiguous(new)
  <2> SUFFICES ASSUME NEW i \in 1..n
               PROVE  new[i][1] = (IF i = 1 THEN 0 ELSE new[i - 1][2])
    BY <1>1 DEF Contiguous
  <2>1. old[i][1] = (IF i = 1 THEN 0 ELSE old[i - 1][2])
    BY <1>1, <1>8 DEF Contiguous
  <2>2. i # 1 => i - 1 \in 1..n /\ i - 1 < n
    BY <1>4
  <2> QED  BY <2>1, <2>2, <1>5
<1> QED  BY <1>7, <1>8 DEF old, new

(* A flush cuts the stream at the end of the buffer.                       *)
LEMMA CutAtTheEnd ==
  ASSUME NEW s \in Seq(Packet), NEW a \in 0..MaxBytes, NEW b \in 0..MaxBytes
  PROVE  LET whole == s \o << <<a, b>> >>
         IN  /\ Ordered(whole) => Ordered(whole \o << <<b, b>> >>)
             /\ Contiguous(whole) => Contiguous(whole \o << <<b, b>> >>)
<1> DEFINE whole == s \o << <<a, b>> >>
           cut == whole \o << <<b, b>> >>
           n == Len(s) + 1
<1>1. /\ Len(s) \in Nat /\ whole \in Seq(Packet)
      /\ Len(whole) = n /\ whole[n] = <<a, b>>
  BY ConcatProperties, LenProperties DEF Packet
<1>2. /\ Len(cut) = n + 1 /\ cut[n + 1] = <<b, b>>
      /\ \A i \in 1..n : cut[i] = whole[i]
  BY <1>1, ConcatProperties, LenProperties DEF Packet
<1>3. MaxBytes \in Nat
  BY BufferedConnAssumption
<1>4. n \in Nat \ {0}
  BY <1>1
<1>5. whole[n][2] = b /\ cut[n + 1][1] = b /\ cut[n + 1][2] = b /\ whole[n][1] = a
  BY <1>1, <1>2
<1> HIDE DEF whole, cut, n
<1>6. ASSUME Ordered(whole) PROVE Ordered(cut)
  <2>1. /\ \A i \in 1..n : whole[i][1] <= whole[i][2]
        /\ \A i, j \in 1..n : i < j => whole[i][2] <= whole[j][1]
    BY <1>1, <1>6 DEF Ordered
  <2>2. \A i \in 1..n : whole[i][2] <= b
    <3> SUFFICES ASSUME NEW i \in 1..n PROVE whole[i][2] <= b
      OBVIOUS
    <3>1. CASE i = n  BY <3>1, <1>5, <1>3
    <3>2. CASE i < n
      <4>0. whole[i] \in Packet
        BY <1>1, <1>4, ElementOfSeq
      <4>1. whole[i][2] <= a /\ a <= b
        BY <2>1, <3>2, <1>4, <1>5
      <4>2. whole[i][2] \in 0..MaxBytes
        BY <4>0 DEF Packet
      <4> QED  BY <4>1, <4>2, <1>3
    <3> QED  BY <3>1, <3>2, <1>4
  <2>3. \A i \in 1..(n + 1) : cut[i][1] <= cut[i][2]
    <3> SUFFICES ASSUME NEW i \in 1..(n + 1) PROVE cut[i][1] <= cut[i][2]
      OBVIOUS
    <3>1. CASE i = n + 1  BY <3>1, <1>5, <1>3
    <3>2. CASE i \in 1..n  BY <3>2, <1>2, <2>1
    <3> QED  BY <3>1, <3>2, <1>4
  <2>4. \A i, j \in 1..(n + 1) : i < j => cut[i][2] <= cut[j][1]
    <3> SUFFICES ASSUME NEW i \in 1..(n + 1), NEW j \in 1..(n + 1), i < j
                 PROVE  cut[i][2] <= cut[j][1]
      OBVIOUS
    <3>1. i \in 1..n /\ cut[i] = whole[i]
      BY <1>2, <1>4
    <3>2. CASE j = n + 1  BY <3>1, <3>2, <1>5, <2>2
    <3>3. CASE j \in 1..n  BY <3>1, <3>3, <1>2, <2>1
    <3> QED  BY <3>2, <3>3, <1>4
  <2> QED  BY <1>2, <2>3, <2>4 DEF Ordered
<1>7. ASSUME Contiguous(whole) PROVE Contiguous(cut)
  <2>1. \A i \in 1..n : whole[i][1] = (IF i = 1 THEN 0 ELSE whole[i - 1][2])
    BY <1>1, <1>7 DEF Contiguous
  <2> SUFFICES ASSUME NEW i \in 1..(n + 1)
               PROVE  cut[i][1] = (IF i = 1 THEN 0 ELSE cut[i - 1][2])
    BY <1>2 DEF Contiguous
  <2>2. CASE i = n + 1
    <3>1. i # 1 /\ i - 1 = n /\ n \in 1..n
      BY <2>2, <1>4
    <3> QED  BY <3>1, <2>2, <1>2, <1>5
  <2>3. CASE i \in 1..n
    <3>1. i # 1 => i - 1 \in 1..n
      BY <2>3, <1>4
    <3> QED  BY <2>3, <3>1, <2>1, <1>2
  <2> QED  BY <2>2, <2>3, <1>4
<1> QED  BY <1>6, <1>7 DEF whole, cut

-----------------------------------------------------------------------------
(* The stream and its parts.                                               *)

Last == << <<flushed, accepted>> >>

LEMMA PartsAreSequences ==
  ASSUME TypeOK
  PROVE  /\ sent \in Seq(Packet) /\ writing \in Seq(Packet)
         /\ writeCh \in Seq(Packet) /\ inHand \in Seq(Packet)
         /\ Last \in Seq(Packet)
         /\ sent \o writing \in Seq(Packet)
         /\ sent \o writing \o writeCh \in Seq(Packet)
         /\ sent \o writing \o writeCh \o inHand \in Seq(Packet)
         /\ Stream = sent \o writing \o writeCh \o inHand \o Last
         /\ Stream \in Seq(Packet)
<1>1. /\ sent \in Seq(Packet) /\ writeCh \in Seq(Packet)
      /\ writing \in AtMostOne /\ inHand \in AtMostOne
      /\ flushed \in 0..accepted /\ accepted \in 0..MaxBytes
  BY DEF TypeOK
<1>2. \A s \in AtMostOne : s \in Seq(Packet)
  <2>1. \A p \in Packet : <<p>> \in Seq(Packet)
    OBVIOUS
  <2> QED  BY <2>1, EmptySeq DEF AtMostOne
<1>3. <<flushed, accepted>> \in Packet
  BY <1>1, BufferedConnAssumption DEF Packet
<1>4. Last \in Seq(Packet)
  BY <1>3 DEF Last
<1>5. Stream = sent \o writing \o writeCh \o inHand \o Last
  BY DEF Stream, Last
<1> QED  BY <1>1, <1>2, <1>4, <1>5, ConcatProperties

(* StreamIntact is what the invariant says of the packets sent.            *)
LEMMA InvariantImplies ==
  ASSUME IInv
  PROVE  StreamIntact
<1> USE DEF IInv, StreamInv
<1>1. Ordered(Stream) /\ Stream \in Seq(Packet)
  BY PartsAreSequences
<1>2. Ordered(sent \o writing \o writeCh \o inHand)
  BY <1>1, PartsAreSequences, PrefixIsGood
<1>3. Ordered(sent \o writing \o writeCh)
  BY <1>2, PartsAreSequences, PrefixIsGood
<1>4. Ordered(sent \o writing)
  BY <1>3, PartsAreSequences, PrefixIsGood
<1>5. Ordered(sent)
  BY <1>4, PartsAreSequences, PrefixIsGood
<1> QED  BY <1>5 DEF StreamIntact, Ordered, Stream

-----------------------------------------------------------------------------
(* Types.                                                                  *)

LEMMA FlushTypes ==
  ASSUME TypeOK, mu = "free",
         NEW caller \in Caller, NEW end \in 0..MaxBytes, flushed <= end,
         flushLocked(caller, end)
  PROVE  /\ flushed' = end /\ flushed \in 0..MaxBytes
         /\ mu' = caller /\ mu' # "free"
         /\ inHand' \in AtMostOne /\ inHand' # << >> /\ inHand = << >>
         /\ inHand' = << <<flushed, end>> >>
         /\ timer' = "nil"
<1>1. flushed \in 0..MaxBytes
  BY BufferedConnAssumption DEF TypeOK
<1>2. <<flushed, end>> \in Packet
  BY <1>1 DEF Packet
<1>3. << <<flushed, end>> >> \in AtMostOne /\ << <<flushed, end>> >> # << >>
  BY <1>2 DEF AtMostOne
<1> QED  BY <1>1, <1>3 DEF flushLocked, Caller, TypeOK

LEMMA WriteTypes ==
  ASSUME TypeOK, NEW n \in 1..MaxBytes, Write(n)
  PROVE  TypeOK'
<1>0. /\ MaxBytes \in Nat /\ accepted \in 0..MaxBytes /\ flushed \in 0..accepted
      /\ accepted + n <= MaxBytes /\ accepted' = accepted + n /\ mu = "free"
  BY BufferedConnAssumption DEF TypeOK, Write
<1>1. accepted' \in 0..MaxBytes /\ flushed <= accepted' /\ flushed \in 0..accepted'
  BY <1>0
<1>2. CASE flushLocked("Write", accepted + n)
  <2>1. /\ flushed' = accepted' /\ mu' = "Write" /\ mu' # "free"
        /\ inHand' \in AtMostOne /\ inHand' # << >> /\ timer' = "nil"
    BY <1>0, <1>1, <1>2, FlushTypes DEF Caller
  <2>2. writer # "flushing"
    BY <1>0 DEF TypeOK
  <2>3. flushed' \in 0..accepted'
    BY <2>1, <1>1, <1>0
  <2> QED
    BY <1>1, <2>1, <2>2, <2>3 DEF Write, TypeOK, Caller, writerVars
<1>3. CASE UNCHANGED <<flushed, mu, inHand>> /\ timer' \in {"armed", timer}
  BY <1>1, <1>3 DEF Write, TypeOK, writerVars
<1> QED  BY <1>2, <1>3 DEF Write

LEMMA BufferTypes ==
  ASSUME TypeOK, Flush \/ TimerFires \/ onTimeout \/ WriterCloses
  PROVE  TypeOK'
<1>0. /\ MaxBytes \in Nat /\ accepted \in 0..MaxBytes /\ flushed \in 0..accepted
      /\ flushed <= accepted /\ accepted \in 0..accepted
  BY BufferedConnAssumption DEF TypeOK
<1>1. CASE Flush
  <2>1. /\ flushed' = accepted /\ mu' = "Flush" /\ mu' # "free" /\ mu = "free"
        /\ inHand' \in AtMostOne /\ inHand' # << >> /\ timer' = "nil"
    BY <1>0, <1>1, FlushTypes DEF Caller, Flush
  <2> QED
    BY <1>0, <1>1, <2>1 DEF Flush, TypeOK, Caller, writerVars
<1>2. CASE TimerFires
  BY <1>2 DEF TimerFires, TypeOK, writerVars
<1>3. CASE onTimeout /\ UNCHANGED <<flushed, mu, inHand, timer>>
  BY <1>3 DEF onTimeout, TypeOK, writerVars
<1>4. CASE onTimeout /\ flushLocked("onTimeout", accepted)
  <2>1. /\ flushed' = accepted /\ mu' = "onTimeout" /\ mu' # "free" /\ mu = "free"
        /\ inHand' \in AtMostOne /\ inHand' # << >> /\ timer' = "nil"
    BY <1>0, <1>4, FlushTypes DEF Caller, onTimeout
  <2> QED
    BY <1>0, <1>4, <2>1 DEF onTimeout, TypeOK, Caller, writerVars
<1>5. CASE WriterCloses /\ UNCHANGED <<flushed, mu, inHand, timer>>
  <2>1. writer' \in {"done", "flushing"} /\ (writer' = "flushing" => mu' = "writer")
    BY <1>5 DEF WriterCloses, flushLocked
  <2> QED
    BY <1>5, <2>1 DEF WriterCloses, TypeOK
<1>6. CASE WriterCloses /\ writer' = "flushing" /\ flushLocked("writer", accepted)
  <2>1. /\ flushed' = accepted /\ mu' = "writer" /\ mu' # "free" /\ mu = "free"
        /\ inHand' \in AtMostOne /\ inHand' # << >> /\ timer' = "nil"
    BY <1>0, <1>6, FlushTypes DEF Caller, WriterCloses
  <2> QED
    BY <1>0, <1>6, <2>1 DEF WriterCloses, TypeOK, Caller
<1> QED
  BY <1>1, <1>2, <1>3, <1>4, <1>5, <1>6 DEF onTimeout, WriterCloses

LEMMA ChannelTypes ==
  ASSUME TypeOK,
         SendToWriter \/ SelectClosed \/ WriterTakes \/ WriterWrote \/ WriterFails
  PROVE  TypeOK'
<1>0. /\ writeCh \in Seq(Packet) /\ inHand \in Seq(Packet)
      /\ writing \in Seq(Packet) /\ sent \in Seq(Packet)
  BY PartsAreSequences
<1>1. CASE SendToWriter
  <2>1. inHand # << >> /\ Len(inHand) = 1
    BY <1>1 DEF SendToWriter, TypeOK, AtMostOne
  <2>2. writeCh' \in Seq(Packet) /\ Len(writeCh') = Len(writeCh) + 1
    <3>1. Len(writeCh \o inHand) = Len(writeCh) + Len(inHand)
      BY <1>0, ConcatProperties
    <3>2. writeCh \o inHand \in Seq(Packet)
      BY <1>0, ConcatProperties
    <3>3. writeCh' = writeCh \o inHand
      BY <1>1 DEF SendToWriter
    <3> QED  BY <2>1, <3>1, <3>2, <3>3
  <2>3. Len(writeCh') <= Capacity
    <3>1. Len(writeCh) < Capacity /\ Len(writeCh) \in Nat
      BY <1>0, <1>1, LenProperties DEF SendToWriter
    <3> QED  BY <2>2, <3>1, BufferedConnAssumption
  <2> QED
    BY <1>1, <2>2, <2>3 DEF SendToWriter, Unlock, TypeOK, AtMostOne, Caller
<1>2. CASE SelectClosed
  BY <1>2 DEF SelectClosed, Unlock, TypeOK, AtMostOne, Caller
<1>3. CASE WriterTakes
  <2>1. /\ Head(writeCh) \in Packet /\ Tail(writeCh) \in Seq(Packet)
        /\ Len(Tail(writeCh)) = Len(writeCh) - 1
    BY <1>0, <1>3, HeadTailProperties DEF WriterTakes
  <2>2. Len(writeCh') <= Capacity
    <3>1. Len(writeCh) <= Capacity /\ Len(writeCh) \in Nat
      BY <1>0, LenProperties DEF TypeOK
    <3> QED  BY <2>1, <3>1, <1>3, BufferedConnAssumption DEF WriterTakes
  <2>3. writing' \in AtMostOne /\ writing' # << >>
    BY <1>3, <2>1 DEF WriterTakes, AtMostOne
  <2> QED
    BY <1>3, <2>1, <2>2, <2>3 DEF WriterTakes, TypeOK, bufferVars
<1>4. CASE WriterWrote
  <2>1. sent' \in Seq(Packet)
    BY <1>0, <1>4, ConcatProperties DEF WriterWrote
  <2> QED
    BY <1>4, <2>1 DEF WriterWrote, TypeOK, bufferVars, AtMostOne
<1>5. CASE WriterFails
  BY <1>5 DEF WriterFails, TypeOK, bufferVars, AtMostOne
<1> QED  BY <1>1, <1>2, <1>3, <1>4, <1>5

LEMMA ClosingTypes ==
  ASSUME TypeOK, WriterSeesClose \/ Close \/ CloseConn \/ ConnBreaks \/ UNCHANGED vars
  PROVE  TypeOK'
<1>1. CASE WriterSeesClose
  BY <1>1 DEF WriterSeesClose, TypeOK, bufferVars
<1>2. CASE Close
  BY <1>2 DEF Close, TypeOK, bufferVars, writerVars
<1>3. CASE CloseConn
  BY <1>3 DEF CloseConn, TypeOK, bufferVars, writerVars
<1>4. CASE ConnBreaks
  BY <1>4 DEF ConnBreaks, TypeOK, bufferVars, writerVars
<1>5. CASE UNCHANGED vars
  BY <1>5 DEF vars, TypeOK, bufferVars, writerVars
<1> QED  BY <1>1, <1>2, <1>3, <1>4, <1>5

LEMMA InitTypes ==
  ASSUME Init
  PROVE  TypeOK
<1>1. /\ MaxBytes \in Nat /\ Capacity \in Nat
      /\ << >> \in Seq(Packet) /\ Len(<< >>) = 0 /\ << >> \in AtMostOne
  BY BufferedConnAssumption, EmptySeq DEF AtMostOne
<1>2. 0 \in 0..MaxBytes /\ 0 \in 0..0 /\ 0 <= Capacity /\ 0 \in Nat
  BY <1>1
<1> QED  BY <1>1, <1>2 DEF Init, TypeOK, Caller

LEMMA NextTypes ==
  ASSUME TypeOK, [Next]_vars
  PROVE  TypeOK'
<1>1. CASE \E n \in 1..MaxBytes : Write(n)
  BY <1>1, WriteTypes
<1> QED
  BY <1>1, BufferTypes, ChannelTypes, ClosingTypes DEF Next

(* The state of a BufferedConn has its type: whoever waits in flushLocked  *)
(* holds the mutex with one packet in hand, and the channel to the writer  *)
(* never holds more than its capacity.                                     *)
THEOREM BufferedConnTypes == Spec => []TypeOK
<1>1. Init => TypeOK
  BY InitTypes
<1>2. TypeOK /\ [Next]_vars => TypeOK'
  BY NextTypes
<1> QED  BY <1>1, <1>2, PTL DEF Spec

-----------------------------------------------------------------------------
(* The stream.                                                             *)

(* Concatenation under a name, which the provers take as it stands.        *)
Cat(s, t) == s \o t

LEMMA CatProperties ==
  /\ \A s, t \in Seq(Packet) : Cat(s, t) \in Seq(Packet)
  /\ \A s, t, u \in Seq(Packet) : Cat(Cat(s, t), u) = Cat(s, Cat(t, u))
<1>1. ASSUME NEW s \in Seq(Packet), NEW t \in Seq(Packet)
      PROVE  Cat(s, t) \in Seq(Packet)
  BY ConcatProperties DEF Cat
<1>2. ASSUME NEW s \in Seq(Packet), NEW t \in Seq(Packet), NEW u \in Seq(Packet)
      PROVE  Cat(Cat(s, t), u) = Cat(s, Cat(t, u))
  <2>1. (s \o t) \o u = s \o (t \o u)
    BY ConcatAssociative
  <2> QED  BY <2>1, Zenon DEF Cat
<1> QED  BY <1>1, <1>2

(* The buffer may grow, and may then be cut and taken in hand: the stream  *)
(* before it stays.                                                        *)
LEMMA BufferStep ==
  ASSUME IInv, TypeOK', UNCHANGED <<sent, writing, writeCh, closed, Conn>>,
         accepted <= accepted',
         \/ UNCHANGED <<flushed, inHand>>
         \/ /\ mu = "free"
            /\ flushed' = accepted'
            /\ inHand' = << <<flushed, accepted'>> >>
  PROVE  StreamInv'
<1> DEFINE before == sent \o writing \o writeCh
           all == before \o inHand
           grown == all \o << <<flushed, accepted'>> >>
<1>0. TypeOK
  BY DEF IInv
<1>1. /\ all \in Seq(Packet) /\ before \in Seq(Packet)
      /\ Stream = all \o << <<flushed, accepted>> >>
  BY <1>0, PartsAreSequences DEF Last
<1>2. /\ flushed \in 0..MaxBytes /\ accepted \in 0..MaxBytes
      /\ accepted' \in 0..MaxBytes
  BY <1>0, BufferedConnAssumption DEF TypeOK
<1>3. /\ Ordered(Stream) => Ordered(grown)
      /\ Contiguous(Stream) => Contiguous(grown)
  <2> HIDE DEF all
  <2> QED  BY <1>1, <1>2, LastMayGrow
<1>4. CASE UNCHANGED <<flushed, inHand>>
  <2>1. Stream' = grown
    BY <1>4 DEF Stream
  <2> HIDE DEF grown
  <2> QED  BY <2>1, <1>3 DEF IInv, StreamInv, Contiguous
<1>5. CASE /\ mu = "free"
           /\ flushed' = accepted'
           /\ inHand' = << <<flushed, accepted'>> >>
  <2>1. inHand = << >>
    BY <1>0, <1>5 DEF TypeOK
  <2>2. all = before
    <3> HIDE DEF before
    <3> QED  BY <2>1, <1>1, ConcatEmptySeq
  <2>3. Stream' = (before \o << <<flushed, accepted'>> >>) \o << <<accepted', accepted'>> >>
    BY <1>5 DEF Stream
  <2>4. Stream' = grown \o << <<accepted', accepted'>> >>
    BY <2>2, <2>3
  <2>5. /\ Ordered(grown) => Ordered(Stream')
        /\ Contiguous(grown) => Contiguous(Stream')
    <3> HIDE DEF all
    <3> QED  BY <2>4, <1>1, <1>2, CutAtTheEnd
  <2>6. Ordered(Stream)' /\ (Contiguous(Stream) => Contiguous(Stream)')
    <3> HIDE DEF grown
    <3> QED  BY <2>5, <1>3 DEF IInv, StreamInv, Ordered, Contiguous
  <2>7. Contiguous(sent) => Contiguous(sent)'
    BY DEF Contiguous
  <2> QED  BY <2>6, <2>7 DEF IInv, StreamInv
<1> QED  BY <1>4, <1>5

(* A packet that goes on from one part to the next leaves the stream as it *)
(* was.                                                                    *)
LEMMA HandOver ==
  ASSUME TypeOK, SendToWriter \/ WriterTakes \/ WriterWrote
  PROVE  Stream' = Stream
<1>0. /\ sent \in Seq(Packet) /\ writing \in Seq(Packet)
      /\ writeCh \in Seq(Packet) /\ inHand \in Seq(Packet)
      /\ sent \o writing \in Seq(Packet)
      /\ sent \o writing \o writeCh \in Seq(Packet)
      /\ sent \o writing \o writeCh \o inHand \in Seq(Packet)
  BY PartsAreSequences
<1>1. CASE SendToWriter
  <2>1. /\ sent' = sent /\ writing' = writing /\ flushed' = flushed
        /\ accepted' = accepted /\ inHand' = << >> /\ writeCh' = writeCh \o inHand
    BY <1>1 DEF SendToWriter, Unlock
  <2>2. (sent \o writing) \o (writeCh \o inHand) = (sent \o writing \o writeCh) \o inHand
    <3>1. Cat(Cat(Cat(sent, writing), writeCh), inHand)
            = Cat(Cat(sent, writing), Cat(writeCh, inHand))
      BY <1>0, CatProperties
    <3> QED  BY <3>1, Zenon DEF Cat
  <2>3. (sent \o writing \o writeCh \o inHand) \o << >> = sent \o writing \o writeCh \o inHand
    BY <1>0, ConcatEmptySeq
  <2> QED  BY <2>1, <2>2, <2>3 DEF Stream
<1>2. CASE WriterTakes
  <2>1. /\ sent' = sent /\ inHand' = inHand /\ flushed' = flushed
        /\ accepted' = accepted /\ writing = << >>
        /\ writing' = << Head(writeCh) >> /\ writeCh' = Tail(writeCh)
        /\ writeCh # << >>
    BY <1>2 DEF WriterTakes, bufferVars, TypeOK
  <2>2. /\ << Head(writeCh) >> \in Seq(Packet) /\ Tail(writeCh) \in Seq(Packet)
        /\ << Head(writeCh) >> \o Tail(writeCh) = writeCh
    BY <2>1, <1>0, HeadTailProperties
  <2>3. sent \o writing = sent
    BY <2>1, <1>0, ConcatEmptySeq
  <2>4. (sent \o << Head(writeCh) >>) \o Tail(writeCh) = sent \o writeCh
    <3> DEFINE first == << Head(writeCh) >>
               others == Tail(writeCh)
    <3>1. first \in Seq(Packet) /\ others \in Seq(Packet) /\ first \o others = writeCh
      BY <2>2
    <3> HIDE DEF first, others
    <3>2. (sent \o first) \o others = sent \o (first \o others)
      <4>1. Cat(Cat(sent, first), others) = Cat(sent, Cat(first, others))
        BY <3>1, <1>0, CatProperties
      <4> QED  BY <4>1, Zenon DEF Cat
    <3>3. (sent \o first) \o others = sent \o writeCh
      BY <3>1, <3>2
    <3> QED  BY <3>3 DEF first, others
  <2> QED  BY <2>1, <2>3, <2>4 DEF Stream
<1>3. CASE WriterWrote
  <2>1. /\ sent' = sent \o writing /\ inHand' = inHand /\ flushed' = flushed
        /\ accepted' = accepted /\ writing' = << >> /\ writeCh' = writeCh
    BY <1>3 DEF WriterWrote, bufferVars
  <2>2. (sent \o writing) \o << >> = sent \o writing
    BY <1>0, ConcatEmptySeq
  <2> QED  BY <2>1, <2>2 DEF Stream
<1> QED  BY <1>1, <1>2, <1>3

LEMMA HandOverStep ==
  ASSUME IInv, TypeOK', SendToWriter \/ WriterTakes \/ WriterWrote
  PROVE  StreamInv'
<1>0. TypeOK
  BY DEF IInv
<1>1. Stream' = Stream
  BY <1>0, HandOver
<1>2. closed' = closed /\ Conn' = Conn
  BY DEF SendToWriter, WriterTakes, WriterWrote, Unlock
<1>3. Ordered(Stream)' /\ (Contiguous(Stream) => Contiguous(Stream)')
  BY <1>1 DEF IInv, StreamInv, Ordered, Contiguous
<1>4. ~closed => Contiguous(sent)'
  <2>1. CASE sent' = sent
    BY <2>1 DEF IInv, StreamInv, Contiguous
  <2>2. CASE WriterWrote
    <3> SUFFICES ASSUME ~closed PROVE Contiguous(sent')
      BY DEF Contiguous
    <3>1. Contiguous(Stream) /\ sent' = sent \o writing
      BY <2>2 DEF IInv, StreamInv, WriterWrote
    <3>2. Contiguous(sent \o writing \o writeCh \o inHand)
      BY <1>0, <3>1, PartsAreSequences, PrefixIsGood
    <3>3. Contiguous(sent \o writing \o writeCh)
      BY <1>0, <3>2, PartsAreSequences, PrefixIsGood
    <3>4. Contiguous(sent \o writing)
      BY <1>0, <3>3, PartsAreSequences, PrefixIsGood
    <3> QED  BY <3>1, <3>4
  <2> QED  BY <2>1, <2>2 DEF SendToWriter, WriterTakes, Unlock
<1> QED  BY <1>2, <1>3, <1>4 DEF IInv, StreamInv

(* A packet is dropped only when somebody has closed the connection, or it *)
(* is broken, and then only the order is left to keep.                     *)
LEMMA DropStep ==
  ASSUME IInv, TypeOK', SelectClosed \/ WriterFails
  PROVE  StreamInv'
<1>0. TypeOK /\ Ordered(Stream)
  BY DEF IInv, StreamInv
<1>1. /\ sent \in Seq(Packet) /\ writing \in Seq(Packet)
      /\ writeCh \in Seq(Packet) /\ inHand \in Seq(Packet) /\ Last \in Seq(Packet)
      /\ sent \o writing \in Seq(Packet)
      /\ sent \o writing \o writeCh \in Seq(Packet)
      /\ Stream = sent \o writing \o writeCh \o inHand \o Last
  BY <1>0, PartsAreSequences
<1>2. Contiguous(sent) => Contiguous(sent)'
  BY DEF SelectClosed, WriterFails, Unlock, Contiguous
<1>3. CASE SelectClosed
  <2>1. /\ sent' = sent /\ writing' = writing /\ writeCh' = writeCh
        /\ inHand' = << >> /\ flushed' = flushed /\ accepted' = accepted
        /\ closed /\ closed'
    BY <1>3 DEF SelectClosed, Unlock
  <2>2. Ordered((sent \o writing \o writeCh) \o Last)
    BY <1>0, <1>1, DropKeepsOrder
  <2>3. (sent \o writing \o writeCh) \o << >> = sent \o writing \o writeCh
    BY <1>1, ConcatEmptySeq
  <2>4. Stream' = (sent \o writing \o writeCh) \o Last
    BY <2>1, <2>3 DEF Stream, Last
  <2>5. Ordered(Stream)'
    BY <2>2, <2>4 DEF Ordered
  <2> QED  BY <2>1, <2>5 DEF StreamInv
<1>4. CASE WriterFails
  <2>1. /\ sent' = sent /\ writing' = << >> /\ writeCh' = writeCh
        /\ inHand' = inHand /\ flushed' = flushed /\ accepted' = accepted
        /\ closed' = closed /\ Conn' = Conn /\ Conn # "up"
    BY <1>4 DEF WriterFails, bufferVars
  <2> DEFINE rest == (writeCh \o inHand) \o Last
  <2>2. writeCh \o inHand \in Seq(Packet) /\ rest \in Seq(Packet)
    BY <1>1, ConcatProperties
  <2>3. /\ ((sent \o writeCh) \o inHand) \o Last = sent \o rest
        /\ (((sent \o writing) \o writeCh) \o inHand) \o Last = (sent \o writing) \o rest
    <3> DEFINE behind(s) == Cat(Cat(Cat(s, writeCh), inHand), Last)
               ahead(s) == Cat(s, Cat(Cat(writeCh, inHand), Last))
    <3>1. ASSUME NEW s \in Seq(Packet)
          PROVE  behind(s) = ahead(s)
      <4>1. /\ Cat(Cat(s, writeCh), inHand) = Cat(s, Cat(writeCh, inHand))
            /\ Cat(writeCh, inHand) \in Seq(Packet)
        BY <1>1, CatProperties
      <4>2. Cat(Cat(s, Cat(writeCh, inHand)), Last) = ahead(s)
        BY <1>1, <4>1, CatProperties
      <4> QED  BY <4>1, <4>2
    <3>2. behind(sent) = ahead(sent) /\ behind(sent \o writing) = ahead(sent \o writing)
      <4> HIDE DEF behind, ahead
      <4> QED  BY <1>1, <3>1
    <3> QED  BY <3>2, Zenon DEF Cat
  <2>4. Stream = (sent \o writing) \o rest
    <3> HIDE DEF rest
    <3> QED  BY <1>1, <2>3
  <2>5. sent \o << >> = sent
    BY <1>1, ConcatEmptySeq
  <2>6. Stream' = sent \o rest
    <3>1. Stream' = (((sent \o << >>) \o writeCh) \o inHand) \o Last
      BY <2>1 DEF Stream, Last
    <3> HIDE DEF rest
    <3> QED  BY <3>1, <2>5, <1>1, <2>3
  <2>7. Ordered(sent \o rest)
    <3> HIDE DEF rest
    <3> QED  BY <1>0, <1>1, <2>2, <2>4, DropKeepsOrder
  <2>8. Ordered(Stream)'
    <3> HIDE DEF rest
    <3> QED  BY <2>6, <2>7 DEF Ordered
  <2> QED  BY <1>2, <2>1, <2>8 DEF IInv, StreamInv
<1> QED  BY <1>3, <1>4

(* Everything else leaves the stream alone, or ends what was promised.     *)
LEMMA QuietStep ==
  ASSUME IInv,
         UNCHANGED <<sent, writing, writeCh, inHand, flushed, accepted>>,
         ~closed' => ~closed, Conn' = "up" => Conn = "up"
  PROVE  StreamInv'
<1>1. Stream' = Stream
  BY DEF Stream
<1>2. Ordered(Stream)' /\ (Contiguous(Stream) => Contiguous(Stream)')
  BY <1>1 DEF IInv, StreamInv, Ordered, Contiguous
<1>3. Contiguous(sent) => Contiguous(sent)'
  BY DEF Contiguous
<1> QED  BY <1>2, <1>3 DEF IInv, StreamInv

LEMMA InitInv ==
  ASSUME Init
  PROVE  IInv
<1>1. TypeOK
  BY InitTypes
<1>2. /\ sent = << >> /\ writing = << >> /\ writeCh = << >> /\ inHand = << >>
      /\ flushed = 0 /\ accepted = 0
  BY DEF Init
<1>3. Stream = << <<0, 0>> >>
  <2>1. Last = << <<0, 0>> >> /\ Last \in Seq(Packet)
    BY <1>1, <1>2, PartsAreSequences DEF Last
  <2>2. << >> \o << >> = << >> /\ << >> \o Last = Last
    BY <2>1, EmptySeq, ConcatEmptySeq
  <2> QED  BY <1>2, <2>1, <2>2 DEF Stream, Last
<1>4. Ordered(Stream) /\ Contiguous(Stream) /\ Contiguous(sent)
  BY <1>2, <1>3 DEF Ordered, Contiguous
<1> QED  BY <1>1, <1>4 DEF IInv, StreamInv

LEMMA NextInv ==
  ASSUME IInv, [Next]_vars
  PROVE  IInv'
<1>0. TypeOK
  BY DEF IInv
<1>1. TypeOK'
  BY <1>0, NextTypes
<1> SUFFICES StreamInv'
  BY <1>1 DEF IInv
<1>2. /\ MaxBytes \in Nat /\ accepted \in 0..MaxBytes
      /\ accepted \in Nat /\ accepted <= accepted
  BY <1>0, BufferedConnAssumption DEF TypeOK
<1>3. ASSUME NEW n \in 1..MaxBytes, Write(n)
      PROVE  StreamInv'
  <2>1. /\ accepted' = accepted + n /\ mu = "free"
        /\ UNCHANGED <<sent, writing, writeCh, closed, Conn>>
    BY <1>3 DEF Write, writerVars
  <2>2. accepted <= accepted'
    BY <2>1, <1>2
  <2>3. \/ UNCHANGED <<flushed, inHand>>
        \/ flushed' = accepted' /\ inHand' = << <<flushed, accepted'>> >>
    BY <1>3, <2>1 DEF Write, flushLocked
  <2> QED  BY <1>1, <2>1, <2>2, <2>3, BufferStep
<1>4. CASE Flush \/ onTimeout \/ WriterCloses
  <2>1. /\ accepted' = accepted /\ mu = "free"
        /\ UNCHANGED <<sent, writing, writeCh, closed, Conn>>
    BY <1>4 DEF Flush, onTimeout, WriterCloses, writerVars
  <2>2. \/ UNCHANGED <<flushed, inHand>>
        \/ flushed' = accepted' /\ inHand' = << <<flushed, accepted'>> >>
    BY <1>4, <2>1 DEF Flush, onTimeout, WriterCloses, flushLocked
  <2>3. accepted <= accepted'
    BY <1>2, <2>1
  <2> QED  BY <1>1, <2>1, <2>2, <2>3, BufferStep
<1>5. CASE SendToWriter \/ WriterTakes \/ WriterWrote
  BY <1>1, <1>5, HandOverStep
<1>6. CASE SelectClosed \/ WriterFails
  BY <1>1, <1>6, DropStep
<1>7. CASE \/ TimerFires \/ WriterSeesClose
           \/ Close \/ CloseConn \/ ConnBreaks \/ UNCHANGED vars
  <2>1. /\ UNCHANGED <<sent, writing, writeCh, inHand, flushed, accepted>>
        /\ (~closed' => ~closed) /\ (Conn' = "up" => Conn = "up")
    BY <1>7 DEF TimerFires, WriterSeesClose, Close, CloseConn, ConnBreaks,
                vars, bufferVars, writerVars
  <2> QED  BY <2>1, QuietStep
<1> QED
  BY <1>3, <1>4, <1>5, <1>6, <1>7 DEF Next

(* What reaches the connection is in order, no byte is sent twice, and no  *)
(* gap is left as long as nobody closes the connection; while it works the *)
(* bytes not sent yet are in the writer's hands, its channel, the hands of *)
(* whoever flushes and the buffer, in that order: for every size of buffer *)
(* and channel.                                                            *)
THEOREM BufferedStreamIntact == Spec => []StreamIntact
<1>1. Init => IInv
  BY InitInv
<1>2. IInv /\ [Next]_vars => IInv'
  BY NextInv
<1>3. IInv => StreamIntact
  BY InvariantImplies
<1> QED  BY <1>1, <1>2, <1>3, PTL DEF Spec

=============================================================================
