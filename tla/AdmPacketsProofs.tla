-------------------------- MODULE AdmPacketsProofs --------------------------
(***************************************************************************)
(* Proofs about AdmPackets: the buffer holds every packet, and what is     *)
(* read of it is the message that was sent, whatever the bytes are and     *)
(* whatever the buffer held before.                                        *)
(*                                                                         *)
(* A C string of the buffer is a C string of the packet: it ends at the    *)
(* first zero byte of the packet or, if it has none, at the terminator.    *)
(* What the parsers do with the packet and with such a part of it are the  *)
(* hypotheses HeaderFirst and PacketReadsBack, which the run of Wire       *)
(* checks of the generated classes.                                        *)
(***************************************************************************)
EXTENDS AdmPackets, SequenceTheorems, WellFoundedInduction, TLAPS

Bytes == Seq(0..255)

LEMMA ByteElements ==
  ASSUME NEW s \in Bytes
  PROVE  /\ Len(s) \in Nat /\ DOMAIN s = 1..Len(s)
         /\ \A i \in 1..Len(s) : s[i] \in 0..255
<1>1. Len(s) \in Nat /\ DOMAIN s = 1..Len(s)
  BY LenProperties DEF Bytes
<1>2. \A i \in 1..Len(s) : s[i] \in 0..255
  BY ElementOfSeq DEF Bytes
<1> QED
  BY <1>1, <1>2

\* The first n bytes.
LEMMA Prefix ==
  ASSUME NEW s \in Bytes, NEW n \in Nat, n <= Len(s)
  PROVE  /\ SubSeq(s, 1, n) \in Bytes /\ Len(SubSeq(s, 1, n)) = n
         /\ \A i \in 1..n : SubSeq(s, 1, n)[i] = s[i]
<1>1. \A i \in 1..n : s[i] \in 0..255
  BY ByteElements
<1>2. /\ SubSeq(s, 1, n) \in Seq(0..255)
      /\ Len(SubSeq(s, 1, n)) = IF 1 <= n THEN n - 1 + 1 ELSE 0
      /\ \A i \in 1..n - 1 + 1 : SubSeq(s, 1, n)[i] = s[1 + i - 1]
  BY <1>1, SubSeqProperties
<1>3. Len(SubSeq(s, 1, n)) = n
  BY <1>2
<1>4. \A i \in 1..n : SubSeq(s, 1, n)[i] = s[i]
  BY <1>2
<1> QED
  BY <1>2, <1>3, <1>4 DEF Bytes

\* Two sequences that agree up to n have the same first n bytes.
LEMMA SamePrefix ==
  ASSUME NEW s \in Bytes, NEW t \in Bytes, NEW n \in Nat, n <= Len(s), n <= Len(t),
         \A i \in 1..n : s[i] = t[i]
  PROVE  SubSeq(s, 1, n) = SubSeq(t, 1, n)
<1>1. /\ SubSeq(s, 1, n) \in Bytes /\ Len(SubSeq(s, 1, n)) = n
      /\ SubSeq(t, 1, n) \in Bytes /\ Len(SubSeq(t, 1, n)) = n
  BY Prefix
<1>2. \A i \in 1..n : SubSeq(s, 1, n)[i] = SubSeq(t, 1, n)[i]
  BY Prefix
<1> QED
  BY <1>1, <1>2, SeqEqual DEF Bytes

\* All of a sequence.
LEMMA WholePrefix ==
  ASSUME NEW s \in Bytes
  PROVE  SubSeq(s, 1, Len(s)) = s
<1>1. /\ SubSeq(s, 1, Len(s)) \in Bytes /\ Len(SubSeq(s, 1, Len(s))) = Len(s)
      /\ \A i \in 1..Len(s) : SubSeq(s, 1, Len(s))[i] = s[i]
  BY Prefix, ByteElements
<1> QED
  BY <1>1, SeqEqual DEF Bytes

-----------------------------------------------------------------------------
(* The first zero byte *)

Below == {ss \in Nat \X Nat : ss[1] < ss[2]}

\* A set of numbers that is not empty has a least one.
LEMMA LeastNat ==
  ASSUME NEW T, T \subseteq Nat, T # {}
  PROVE  \E x \in T : \A y \in T : x <= y
<1>1. IsWellFoundedOn(Below, Nat)
  BY NatLessThanWellFounded DEF OpToRel, Below
<1>2. PICK x \in T : \A y \in T : ~ (<<y, x>> \in Below)
  BY <1>1, WFMin
<1>3. \A y \in T : ~ (y < x)
  BY <1>2 DEF Below
<1> QED
  BY <1>3

\* A C string ends before the first zero byte.
LEMMA CStringCut ==
  ASSUME NEW s \in Bytes, NEW n \in 1..Len(s), s[n] = 0, \A i \in 1..n-1 : s[i] # 0
  PROVE  CString(s) = SubSeq(s, 1, n - 1)
<1> DEFINE ends == {i \in 1..Len(s) : s[i] = 0}
<1>1. Len(s) \in Nat
  BY ByteElements
<1>2. n \in ends /\ \A i \in ends : n <= i
  BY <1>1
<1>3. \A m \in ends : (\A i \in ends : m <= i) => m = n
  BY <1>1, <1>2
<1>4. Min(ends) = n
  BY <1>2, <1>3 DEF Min
<1> QED
  BY <1>2, <1>4 DEF CString

\* Without a zero byte it is all of the bytes.
LEMMA CStringAll ==
  ASSUME NEW s \in Bytes, \A i \in 1..Len(s) : s[i] # 0
  PROVE  CString(s) = s
<1>1. CString(s) = SubSeq(s, 1, Len(s))
  BY DEF CString
<1> QED
  BY <1>1, WholePrefix

\* The first zero byte of a sequence that has one.
LEMMA FirstZero ==
  ASSUME NEW s \in Bytes, NEW m \in 1..Len(s), s[m] = 0
  PROVE  \E n \in 1..Len(s) : s[n] = 0 /\ \A i \in 1..n-1 : s[i] # 0
<1> DEFINE ends == {i \in 1..Len(s) : s[i] = 0}
<1>1. Len(s) \in Nat
  BY ByteElements
<1>2. ends \subseteq Nat /\ ends # {}
  BY <1>1
<1>3. PICK n \in ends : \A i \in ends : n <= i
  BY <1>2, LeastNat
<1>4. \A i \in 1..n-1 : s[i] # 0
  BY <1>1, <1>3
<1> QED
  BY <1>3, <1>4

-----------------------------------------------------------------------------
(* The buffer and what is read of it *)

\* A buffer holds a packet if it starts with it and its terminator.
Holds(buf, bytes) ==
  /\ buf \in Bytes /\ Len(bytes) < Len(buf)
  /\ \A i \in 1..Len(bytes) : buf[i] = bytes[i]
  /\ buf[Len(bytes) + 1] = 0

\* The buffer that ReadPacket fills is large enough, for a small packet as for a
\* large one.
LEMMA FilledHolds ==
  ASSUME NEW bytes \in Bytes, NEW stale \in 0..255
  PROVE  Holds(FillBuffer(bytes, BufferSize(Len(bytes)), stale), bytes)
<1> DEFINE size == BufferSize(Len(bytes))
           buf == FillBuffer(bytes, size, stale)
<1>1. Len(bytes) \in Nat /\ \A i \in 1..Len(bytes) : bytes[i] \in 0..255
  BY ByteElements
<1>2. size \in Nat /\ Len(bytes) + 2 <= size
  BY <1>1, PacketAssumption DEF BufferSize
<1>3. buf = [i \in 1..size |-> IF i <= Len(bytes) THEN bytes[i]
                               ELSE IF i = Len(bytes) + 1 THEN 0 ELSE stale]
  BY DEF FillBuffer
<1> HIDE DEF size, buf
<1>4. ASSUME NEW i \in 1..size
      PROVE  buf[i] \in 0..255
  <2>1. CASE i <= Len(bytes)
    BY <1>1, <1>2, <1>3, <2>1
  <2>2. CASE ~(i <= Len(bytes))
    BY <1>2, <1>3, <2>2
  <2> QED
    BY <2>1, <2>2
<1>5. buf \in [1..size -> 0..255]
  BY <1>3, <1>4
<1>6. buf \in Bytes
  BY <1>2, <1>5, SeqDef DEF Bytes
<1>7. Len(buf) = size
  BY <1>2, <1>5, <1>6, ByteElements
<1>8. \A i \in 1..Len(bytes) : buf[i] = bytes[i]
  BY <1>1, <1>2, <1>3
<1>9. buf[Len(bytes) + 1] = 0
  BY <1>1, <1>2, <1>3
<1>10. Holds(buf, bytes)
  BY <1>1, <1>2, <1>6, <1>7, <1>8, <1>9 DEF Holds
<1> QED
  BY <1>10 DEF buf, size

\* The array of m_lenmsg bytes is the packet.
LEMMA ArrayOfBuffer ==
  ASSUME NEW buf, NEW bytes \in Bytes, Holds(buf, bytes)
  PROVE  SubSeq(buf, 1, Len(bytes)) = bytes
<1>1. buf \in Bytes /\ Len(bytes) \in Nat /\ Len(buf) \in Nat
  BY ByteElements DEF Holds
<1>2. SubSeq(buf, 1, Len(bytes)) = SubSeq(bytes, 1, Len(bytes))
  BY <1>1, SamePrefix DEF Holds
<1> QED
  BY <1>2, WholePrefix

\* The C string of the buffer is that of the packet.
LEMMA TextOfBuffer ==
  ASSUME NEW buf, NEW bytes \in Bytes, Holds(buf, bytes)
  PROVE  CString(buf) = CString(bytes)
<1>1. buf \in Bytes /\ Len(bytes) \in Nat /\ Len(buf) \in Nat
  BY ByteElements DEF Holds
<1>2. CASE \E m \in 1..Len(bytes) : bytes[m] = 0
  <2>1. PICK n \in 1..Len(bytes) : bytes[n] = 0 /\ \A i \in 1..n-1 : bytes[i] # 0
    BY <1>2, FirstZero
  <2>2. CString(bytes) = SubSeq(bytes, 1, n - 1)
    BY <2>1, CStringCut
  <2>3. n \in 1..Len(buf) /\ buf[n] = 0 /\ \A i \in 1..n-1 : buf[i] # 0
    BY <1>1, <2>1 DEF Holds
  <2>4. CString(buf) = SubSeq(buf, 1, n - 1)
    BY <1>1, <2>3, CStringCut
  <2>5. /\ n - 1 \in Nat /\ n - 1 <= Len(buf) /\ n - 1 <= Len(bytes)
        /\ \A i \in 1..n-1 : buf[i] = bytes[i]
    BY <1>1 DEF Holds
  <2>6. SubSeq(buf, 1, n - 1) = SubSeq(bytes, 1, n - 1)
    BY <1>1, <2>5, SamePrefix
  <2> QED
    BY <2>2, <2>4, <2>6
<1>3. CASE \A m \in 1..Len(bytes) : bytes[m] # 0
  <2>1. CString(bytes) = bytes
    BY <1>3, CStringAll
  <2>2. /\ Len(bytes) + 1 \in 1..Len(buf) /\ buf[Len(bytes) + 1] = 0
        /\ \A i \in 1..(Len(bytes) + 1) - 1 : buf[i] # 0
    BY <1>1, <1>3 DEF Holds
  <2>3. CString(buf) = SubSeq(buf, 1, (Len(bytes) + 1) - 1)
    BY <1>1, <2>2, CStringCut
  <2>4. (Len(bytes) + 1) - 1 = Len(bytes)
    BY <1>1
  <2> QED
    BY <2>1, <2>3, <2>4, ArrayOfBuffer
<1> QED
  BY <1>2, <1>3

-----------------------------------------------------------------------------
(* The invariant *)

IsPacket(packet) == packet.type \in AdminPackets /\ packet.bytes \in Bytes

\* The buffer holds what was sent, and nothing was got out of it before a caller
\* looks at it.
PacketInv ==
  /\ PacketTypeOK
  /\ m_msgbuf = NoBuffer <=> sent = {}
  /\ sent = {} => reading = "nothing"
  /\ reading = "nothing" => shown = <<>>
  /\ \A packet \in sent :
       IsPacket(packet) /\ m_lenmsg = Len(packet.bytes) /\ Holds(m_msgbuf, packet.bytes)

LEMMA PacketTypes ==
  /\ AdminPackets = {"MsgCmd", "MsgResult", "MsgMetrics"}
  /\ PacketHeader["MsgCmd"] = Command /\ PacketHeader["MsgResult"] = Result
  /\ PacketHeader["MsgMetrics"] = Metrics
<1>1. AdminPackets = {"MsgCmd", "MsgResult", "MsgMetrics"}
  BY DEF AdminPackets, PacketHeader
<1>2. /\ PacketHeader["MsgCmd"] = Command /\ PacketHeader["MsgResult"] = Result
      /\ PacketHeader["MsgMetrics"] = Metrics
  BY DEF PacketHeader
<1> QED
  BY <1>1, <1>2

LEMMA InitPacketInv == PacketInit => PacketInv
<1> SUFFICES ASSUME PacketInit PROVE PacketInv
  OBVIOUS
<1>1. m_msgbuf \in Seq(0..255) /\ Len(shown) = 0
  BY EmptySeq DEF PacketInit, NoBuffer
<1>2. m_lenmsg \in 0..MAX_ADM_PKG
  BY PacketAssumption DEF PacketInit
<1> QED
  BY <1>1, <1>2 DEF PacketInit, PacketInv, PacketTypeOK

\* ReadPacket fills the buffer.
LEMMA ReadPacketStep ==
  ASSUME PacketInv, NEW packet, IsPacket(packet), NEW stale \in 0..255,
         ReadPacket(packet, stale)
  PROVE  PacketInv'
<1>1. /\ m_msgbuf = NoBuffer /\ Len(packet.bytes) <= MAX_ADM_PKG
      /\ sent' = {packet} /\ m_lenmsg' = Len(packet.bytes)
      /\ m_msgbuf' = FillBuffer(packet.bytes, BufferSize(Len(packet.bytes)), stale)
      /\ reading' = reading /\ shown' = shown
  BY DEF ReadPacket
<1>2. Holds(m_msgbuf', packet.bytes)
  BY <1>1, FilledHolds DEF IsPacket
<1>3. reading = "nothing" /\ shown = <<>>
  BY <1>1 DEF PacketInv
<1>4. Len(packet.bytes) \in Nat /\ m_msgbuf' \in Bytes /\ Len(m_msgbuf') > 0
  BY <1>2, ByteElements DEF Holds, IsPacket
<1>5. m_msgbuf' # NoBuffer
  BY <1>4 DEF NoBuffer
<1>6. PacketTypeOK'
  BY <1>1, <1>3, <1>4, PacketAssumption DEF PacketTypeOK, Bytes
<1> QED
  BY <1>1, <1>2, <1>3, <1>5, <1>6 DEF PacketInv

\* A caller gets at most one message of each type that it looks for.
LEMMA TwoMessages ==
  ASSUME NEW a, NEW b
  PROVE  /\ <<a>> \o <<>> = <<a>> /\ Len(<<a>> \o <<b>>) = 2
         /\ (<<a>> \o <<b>>)[1] = a /\ (<<a>> \o <<b>>)[2] = b
<1>1. <<a>> \in Seq({a, b}) /\ <<b>> \in Seq({a, b})
  OBVIOUS
<1>2. <<a>> \o <<>> = <<a>>
  BY <1>1, ConcatEmptySeq
<1>3. /\ Len(<<a>> \o <<b>>) = Len(<<a>>) + Len(<<b>>)
      /\ \A i \in 1..Len(<<a>>) + Len(<<b>>) :
           (<<a>> \o <<b>>)[i] = IF i <= Len(<<a>>) THEN <<a>>[i] ELSE <<b>>[i - Len(<<a>>)]
  BY <1>1, ConcatProperties
<1>4. Len(<<a>>) = 1 /\ Len(<<b>>) = 1 /\ <<a>>[1] = a /\ <<b>>[1] = b
  OBVIOUS
<1>5. (<<a>> \o <<b>>)[1] = a
  BY <1>3, <1>4
<1>6. (<<a>> \o <<b>>)[2] = b
  BY <1>3, <1>4
<1> QED
  BY <1>2, <1>3, <1>4, <1>5, <1>6

\* What ReadAs gives.
LEMMA ReadAsShows ==
  ASSUME NEW type, ReadAs(type)
  PROVE  LET hdr == ParseEither("MsgHeaderWrap", Text, Array)
             body == ParseEither(type, Text, Array)
         IN  /\ ReadBuffer(type)
             /\ shown' = IF /\ m_lenmsg > 0 /\ hdr.ok
                            /\ MsgTypeOf(hdr.msg) = PacketHeader[type] /\ body.ok
                         THEN <<[type |-> type, msg |-> body.msg]>> ELSE <<>>
BY DEF ReadAs

\* What ShowAnswer gives, case by case.
LEMMA ShowAnswerShows ==
  ASSUME NEW getMetrics \in BOOLEAN, ShowAnswer(getMetrics)
  PROVE  LET hdr == ParseEither("MsgHeaderWrap", Text, Array)
             result == ParseEither("MsgResult", Text, Array)
             metrics == ParseEither("MsgMetrics", Array, Text)
             one == [type |-> "MsgResult", msg |-> result.msg]
             two == [type |-> "MsgMetrics", msg |-> metrics.msg]
         IN  /\ ReadBuffer(IF getMetrics THEN "MsgMetrics" ELSE "MsgResult")
             /\ \/ shown' = <<>> /\ (m_lenmsg <= 0 \/ ~hdr.ok)
                \/ /\ shown' = <<>> /\ ~(m_lenmsg <= 0) /\ hdr.ok
                   /\ MsgTypeOf(hdr.msg) # Result /\ ~(getMetrics /\ metrics.ok)
                \/ /\ shown' = <<>> /\ ~(m_lenmsg <= 0) /\ hdr.ok
                   /\ MsgTypeOf(hdr.msg) = Result /\ ~result.ok
                \/ /\ shown' = <<two>> /\ MsgTypeOf(hdr.msg) # Result
                   /\ getMetrics /\ metrics.ok
                \/ shown' = <<one>> /\ MsgTypeOf(hdr.msg) = Result /\ result.ok
                \/ /\ shown' = <<one>> \o <<two>> /\ MsgTypeOf(hdr.msg) = Result
                   /\ result.ok /\ IsOK(result.msg.rc) /\ getMetrics /\ metrics.ok
<1> DEFINE hdr == ParseEither("MsgHeaderWrap", Text, Array)
           result == ParseEither("MsgResult", Text, Array)
           metrics == ParseEither("MsgMetrics", Array, Text)
           one == [type |-> "MsgResult", msg |-> result.msg]
           two == [type |-> "MsgMetrics", msg |-> metrics.msg]
           shownMetrics == IF getMetrics /\ metrics.ok THEN <<two>> ELSE <<>>
<1>1. /\ ReadBuffer(IF getMetrics THEN "MsgMetrics" ELSE "MsgResult")
      /\ shown' = IF m_lenmsg <= 0 \/ ~hdr.ok THEN <<>>
                  ELSE IF MsgTypeOf(hdr.msg) # Result THEN shownMetrics
                  ELSE IF ~result.ok THEN <<>>
                  ELSE IF ~IsOK(result.msg.rc) THEN <<one>>
                  ELSE <<one>> \o shownMetrics
  BY DEF ShowAnswer
<1>2. <<one>> \o <<>> = <<one>>
  BY TwoMessages
<1> HIDE DEF hdr, result, metrics, one, two
<1>3. \/ shownMetrics = <<two>> /\ getMetrics /\ metrics.ok
      \/ shownMetrics = <<>> /\ ~(getMetrics /\ metrics.ok)
  OBVIOUS
<1> HIDE DEF shownMetrics
<1>4. \/ shown' = <<>> /\ (m_lenmsg <= 0 \/ ~hdr.ok)
      \/ /\ shown' = <<>> /\ ~(m_lenmsg <= 0) /\ hdr.ok
         /\ MsgTypeOf(hdr.msg) # Result /\ ~(getMetrics /\ metrics.ok)
      \/ /\ shown' = <<>> /\ ~(m_lenmsg <= 0) /\ hdr.ok
         /\ MsgTypeOf(hdr.msg) = Result /\ ~result.ok
      \/ /\ shown' = <<two>> /\ MsgTypeOf(hdr.msg) # Result
         /\ getMetrics /\ metrics.ok
      \/ shown' = <<one>> /\ MsgTypeOf(hdr.msg) = Result /\ result.ok
      \/ /\ shown' = <<one>> \o <<two>> /\ MsgTypeOf(hdr.msg) = Result
         /\ result.ok /\ IsOK(result.msg.rc) /\ getMetrics /\ metrics.ok
  <2>1. CASE m_lenmsg <= 0 \/ ~hdr.ok
    BY <1>1, <2>1
  <2>2. CASE ~(m_lenmsg <= 0) /\ hdr.ok /\ MsgTypeOf(hdr.msg) # Result
    BY <1>1, <1>3, <2>2
  <2>3. CASE ~(m_lenmsg <= 0) /\ hdr.ok /\ MsgTypeOf(hdr.msg) = Result
    BY <1>1, <1>2, <1>3, <2>3
  <2> QED
    BY <2>1, <2>2, <2>3
<1> QED
  BY <1>1, <1>4 DEF hdr, result, metrics, one, two

\* A caller looks at the buffer and leaves it as it is.
LEMMA ReadBufferStep ==
  ASSUME PacketInv, NEW what \in AdminPackets, ReadBuffer(what), Len(shown') \in 0..2
  PROVE  PacketInv'
<1>1. /\ m_msgbuf # NoBuffer /\ reading = "nothing" /\ reading' = what
      /\ sent' = sent /\ m_msgbuf' = m_msgbuf /\ m_lenmsg' = m_lenmsg
  BY DEF ReadBuffer
<1>2. what # "nothing"
  BY PacketTypes
<1>3. PacketTypeOK'
  BY <1>1 DEF PacketInv, PacketTypeOK
<1>4. sent # {}
  BY <1>1 DEF PacketInv
<1> QED
  BY <1>1, <1>2, <1>3, <1>4 DEF PacketInv

LEMMA ReadAsStep ==
  ASSUME PacketInv, NEW type \in AdminPackets, ReadAs(type)
  PROVE  PacketInv'
<1> DEFINE body == ParseEither(type, Text, Array)
           one == [type |-> type, msg |-> body.msg]
<1>1. ReadBuffer(type) /\ (shown' = <<one>> \/ shown' = <<>>)
  BY ReadAsShows
<1> HIDE DEF body, one
<1>2. Len(shown') \in 0..2
  BY <1>1
<1> QED
  BY <1>1, <1>2, ReadBufferStep

LEMMA ShowAnswerStep ==
  ASSUME PacketInv, NEW getMetrics \in BOOLEAN, ShowAnswer(getMetrics)
  PROVE  PacketInv'
<1> DEFINE one == [type |-> "MsgResult", msg |-> ParseEither("MsgResult", Text, Array).msg]
           two == [type |-> "MsgMetrics", msg |-> ParseEither("MsgMetrics", Array, Text).msg]
           what == IF getMetrics THEN "MsgMetrics" ELSE "MsgResult"
<1>1. /\ ReadBuffer(what)
      /\ shown' \in {<<>>, <<one>>, <<two>>, <<one>> \o <<two>>}
  BY ShowAnswerShows
<1> HIDE DEF one, two
<1>2. Len(shown') \in 0..2
  BY <1>1, TwoMessages
<1>3. what \in AdminPackets
  BY PacketTypes
<1> QED
  BY <1>1, <1>2, <1>3, ReadBufferStep

LEMMA NextPacketInv == PacketInv /\ [PacketNext]_packetVars => PacketInv'
<1> SUFFICES ASSUME PacketInv, [PacketNext]_packetVars PROVE PacketInv'
  OBVIOUS
<1>1. ASSUME NEW type \in AdminPackets, NEW bytes \in Seq(0..255), NEW stale \in 0..255,
             NEW msg, ReadPacket([type |-> type, msg |-> msg, bytes |-> bytes], stale)
      PROVE  PacketInv'
  <2> DEFINE packet == [type |-> type, msg |-> msg, bytes |-> bytes]
  <2>1. IsPacket(packet)
    BY DEF IsPacket, Bytes
  <2> HIDE DEF packet
  <2>2. ReadPacket(packet, stale)
    BY <1>1 DEF packet
  <2> QED
    BY <2>1, <2>2, ReadPacketStep
<1>2. CASE ReadCommand
  BY <1>2, PacketTypes, ReadAsStep DEF ReadCommand
<1>3. CASE ReadResult
  BY <1>3, PacketTypes, ReadAsStep DEF ReadResult
<1>4. ASSUME NEW getMetrics \in BOOLEAN, ShowAnswer(getMetrics) PROVE PacketInv'
  BY <1>4, ShowAnswerStep
<1>5. CASE UNCHANGED packetVars
  BY <1>5 DEF packetVars, PacketInv, PacketTypeOK
<1> QED
  BY <1>1, <1>2, <1>3, <1>4, <1>5 DEF PacketNext

THEOREM PacketInvariant == PacketSpec => []PacketInv
BY InitPacketInv, NextPacketInv, PTL DEF PacketSpec

\* The buffer keeps its type and its limit, and no caller gets more than two
\* messages.
THEOREM PacketTypeCorrect == PacketSpec => []PacketTypeOK
<1>1. PacketInv => PacketTypeOK
  BY DEF PacketInv
<1> QED
  BY <1>1, PacketInvariant, PTL

\* BufferSize and FillBuffer: m_msgbuf[len] = 0 is a write into the buffer, for
\* every size of packet and of m_buf.
THEOREM BufferHoldsPacket == PacketSpec => []BufferHolds
<1>1. PacketInv => BufferHolds
  <2> SUFFICES ASSUME PacketInv, m_msgbuf # NoBuffer
               PROVE  m_lenmsg < Len(m_msgbuf) /\ m_msgbuf[m_lenmsg + 1] = 0
    BY DEF BufferHolds
  <2>1. PICK packet \in sent : m_lenmsg = Len(packet.bytes) /\ Holds(m_msgbuf, packet.bytes)
    BY DEF PacketInv
  <2> QED
    BY <2>1 DEF Holds
<1> QED
  BY <1>1, PacketInvariant, PTL

-----------------------------------------------------------------------------
(* What is read of a packet *)

\* The array is the packet; the C string is all of it or the part that no parser
\* takes for a message.
LEMMA PacketRead ==
  ASSUME PacketInv, PacketReadsBack, NEW packet \in sent
  PROVE  /\ Array = packet.bytes /\ ~(m_lenmsg <= 0)
         /\ Text # packet.bytes =>
              ~Parse("MsgHeaderWrap", Text).ok /\ ~Parse(packet.type, Text).ok
<1>1. /\ packet.bytes \in Bytes /\ m_lenmsg = Len(packet.bytes)
      /\ Holds(m_msgbuf, packet.bytes)
  BY DEF PacketInv, IsPacket
<1>2. Array = packet.bytes
  BY <1>1, ArrayOfBuffer DEF Array
<1>3. Text = CString(packet.bytes)
  BY <1>1, TextOfBuffer DEF Text
<1>4. packet.bytes # <<>>
  BY DEF PacketReadsBack
<1>5. ~(m_lenmsg <= 0)
  BY <1>1, <1>4, EmptySeq DEF Bytes
<1>6. Text # packet.bytes =>
        ~Parse("MsgHeaderWrap", Text).ok /\ ~Parse(packet.type, Text).ok
  BY <1>3 DEF PacketReadsBack
<1> QED
  BY <1>2, <1>5, <1>6

\* The header is that of the packet.
LEMMA HeaderRead ==
  ASSUME PacketInv, HeaderFirst, PacketReadsBack, NEW packet \in sent
  PROVE  LET hdr == ParseEither("MsgHeaderWrap", Text, Array)
         IN  hdr.ok /\ MsgTypeOf(hdr.msg) = PacketHeader[packet.type]
<1>1. ParseEither("MsgHeaderWrap", Text, Array) = Parse("MsgHeaderWrap", packet.bytes)
  BY PacketRead DEF ParseEither
<1> QED
  BY <1>1 DEF HeaderFirst

\* The message is that of the packet, whichever is parsed first, if its text is
\* UTF-8; if not, both parses fail.
LEMMA BodyRead ==
  ASSUME PacketInv, PacketReadsBack, NEW packet \in sent,
         NEW body \in {ParseEither(packet.type, Text, Array),
                       ParseEither(packet.type, Array, Text)}
  PROVE  /\ body.ok => body.msg = packet.msg
         /\ body.ok <=> TextOk(packet.type, packet.msg)
<1> DEFINE whole == Parse(packet.type, packet.bytes)
<1>1. whole.ok = TextOk(packet.type, packet.msg) /\ (whole.ok => whole.msg = packet.msg)
  BY DEF PacketReadsBack
<1>2. /\ Array = packet.bytes
      /\ Text # packet.bytes => ~Parse(packet.type, Text).ok
  BY PacketRead
<1>3. ParseEither(packet.type, Text, Array) = whole
  BY <1>2 DEF ParseEither
<1>4. \/ ParseEither(packet.type, Array, Text) = whole
      \/ ~ParseEither(packet.type, Array, Text).ok /\ ~whole.ok
  BY <1>2 DEF ParseEither
<1>5. body = whole \/ (~body.ok /\ ~whole.ok)
  <2>1. CASE body = ParseEither(packet.type, Text, Array)
    BY <1>3, <2>1
  <2>2. CASE body = ParseEither(packet.type, Array, Text)
    BY <1>4, <2>2
  <2> QED
    BY <2>1, <2>2
<1> HIDE DEF whole
<1> QED
  BY <1>1, <1>5

-----------------------------------------------------------------------------
(* What was read is what was sent *)

\* A caller that looks for one type.
LEMMA ReadAsParsed ==
  ASSUME PacketInv, HeaderFirst, PacketReadsBack, NEW type \in AdminPackets, ReadAs(type)
  PROVE  PacketParsedAsSent'
<1> DEFINE hdr == ParseEither("MsgHeaderWrap", Text, Array)
           body == ParseEither(type, Text, Array)
           one == [type |-> type, msg |-> body.msg]
<1>1. /\ ReadBuffer(type)
      /\ shown' = IF /\ m_lenmsg > 0 /\ hdr.ok
                     /\ MsgTypeOf(hdr.msg) = PacketHeader[type] /\ body.ok
                  THEN <<one>> ELSE <<>>
  BY ReadAsShows
<1>2. sent' = sent /\ reading' = type
  BY <1>1 DEF ReadBuffer
<1>3. m_lenmsg \in Nat
  BY PacketAssumption DEF PacketInv, PacketTypeOK
<1> SUFFICES ASSUME NEW packet \in sent
             PROVE  /\ \A i \in 1..Len(shown') :
                         shown'[i].type = packet.type /\ shown'[i].msg = packet.msg
                    /\ type = packet.type /\ TextOk(packet.type, packet.msg) =>
                         \E i \in 1..Len(shown') : shown'[i].type = packet.type
  BY <1>2 DEF PacketParsedAsSent
<1>4. one.type = type /\ one.msg = body.msg
  OBVIOUS
<1>5. m_lenmsg > 0 /\ hdr.ok /\ MsgTypeOf(hdr.msg) = PacketHeader[packet.type]
  BY <1>3, PacketRead, HeaderRead
<1>6. type = packet.type =>
        (body.ok => body.msg = packet.msg) /\ (body.ok <=> TextOk(packet.type, packet.msg))
  BY BodyRead
<1>9. PacketHeader[packet.type] = PacketHeader[type] => type = packet.type
  BY PacketTypes DEF PacketInv, IsPacket, Result, Command, Metrics
<1> HIDE DEF hdr, body, one
<1>7. CASE shown' = <<one>> /\ body.ok /\ type = packet.type
  BY <1>4, <1>6, <1>7
<1>8. CASE shown' = <<>> /\ ~(type = packet.type /\ body.ok)
  BY <1>6, <1>8
<1> QED
  BY <1>1, <1>5, <1>7, <1>8, <1>9

\* The caller that looks for the result and for the metrics.
LEMMA ShowAnswerParsed ==
  ASSUME PacketInv, HeaderFirst, PacketReadsBack,
         NEW getMetrics \in BOOLEAN, ShowAnswer(getMetrics)
  PROVE  PacketParsedAsSent'
<1> DEFINE hdr == ParseEither("MsgHeaderWrap", Text, Array)
           result == ParseEither("MsgResult", Text, Array)
           metrics == ParseEither("MsgMetrics", Array, Text)
           one == [type |-> "MsgResult", msg |-> result.msg]
           two == [type |-> "MsgMetrics", msg |-> metrics.msg]
           what == IF getMetrics THEN "MsgMetrics" ELSE "MsgResult"
<1>1. /\ ReadBuffer(what)
      /\ \/ shown' = <<>> /\ (m_lenmsg <= 0 \/ ~hdr.ok)
         \/ /\ shown' = <<>> /\ ~(m_lenmsg <= 0) /\ hdr.ok
            /\ MsgTypeOf(hdr.msg) # Result /\ ~(getMetrics /\ metrics.ok)
         \/ /\ shown' = <<>> /\ ~(m_lenmsg <= 0) /\ hdr.ok
            /\ MsgTypeOf(hdr.msg) = Result /\ ~result.ok
         \/ /\ shown' = <<two>> /\ MsgTypeOf(hdr.msg) # Result
            /\ getMetrics /\ metrics.ok
         \/ shown' = <<one>> /\ MsgTypeOf(hdr.msg) = Result /\ result.ok
         \/ /\ shown' = <<one>> \o <<two>> /\ MsgTypeOf(hdr.msg) = Result
            /\ result.ok /\ IsOK(result.msg.rc) /\ getMetrics /\ metrics.ok
  BY ShowAnswerShows
<1>2. sent' = sent /\ reading' = what
  BY <1>1 DEF ReadBuffer
<1> DEFINE Taken(packet, i) ==
             /\ what = "MsgMetrics" /\ shown'[i].type = "MsgMetrics"
             /\ packet.type # "MsgMetrics"
             /\ packet.type = "MsgResult" => i = 2 /\ IsOK(packet.msg.rc)
<1> SUFFICES ASSUME NEW packet \in sent
             PROVE  /\ \A i \in 1..Len(shown') :
                         \/ shown'[i].type = packet.type /\ shown'[i].msg = packet.msg
                         \/ Taken(packet, i)
                    /\ what = packet.type /\ TextOk(packet.type, packet.msg) =>
                         \E i \in 1..Len(shown') : shown'[i].type = packet.type
  BY <1>2 DEF PacketParsedAsSent, TakenForMetrics
<1>3. /\ one.type = "MsgResult" /\ one.msg = result.msg
      /\ two.type = "MsgMetrics" /\ two.msg = metrics.msg
  OBVIOUS
<1>4. ~(m_lenmsg <= 0) /\ hdr.ok /\ MsgTypeOf(hdr.msg) = PacketHeader[packet.type]
  BY PacketRead, HeaderRead
<1>5. packet.type = "MsgResult" =>
        /\ result.ok => result.msg = packet.msg
        /\ result.ok <=> TextOk(packet.type, packet.msg)
        /\ PacketHeader[packet.type] = Result
  BY BodyRead, PacketTypes
<1>6. packet.type = "MsgMetrics" =>
        /\ metrics.ok => metrics.msg = packet.msg
        /\ metrics.ok <=> TextOk(packet.type, packet.msg)
        /\ PacketHeader[packet.type] # Result
  BY BodyRead, PacketTypes DEF Metrics, Result
<1>7. /\ Len(<<one>> \o <<two>>) = 2
      /\ (<<one>> \o <<two>>)[1] = one /\ (<<one>> \o <<two>>)[2] = two
  BY TwoMessages
<1>13. PacketHeader[packet.type] = Result => packet.type = "MsgResult"
  BY PacketTypes DEF PacketInv, IsPacket, Result, Command, Metrics
<1> HIDE DEF hdr, result, metrics, one, two
<1>8. CASE shown' = <<>> /\ MsgTypeOf(hdr.msg) # Result /\ ~(getMetrics /\ metrics.ok)
  <2>1. packet.type # "MsgResult"
    BY <1>4, <1>5, <1>8
  <2>2. what = packet.type => ~TextOk(packet.type, packet.msg)
    BY <1>6, <1>8, <2>1
  <2> QED
    BY <1>8, <2>2
<1>9. CASE shown' = <<>> /\ MsgTypeOf(hdr.msg) = Result /\ ~result.ok
  BY <1>4, <1>5, <1>6, <1>9
<1>10. CASE shown' = <<two>> /\ MsgTypeOf(hdr.msg) # Result /\ getMetrics /\ metrics.ok
  <2>1. Len(shown') = 1 /\ shown'[1] = two /\ what = "MsgMetrics"
    BY <1>10
  <2>2. packet.type # "MsgResult"
    BY <1>4, <1>5, <1>10
  <2>3. packet.type # "MsgMetrics" => Taken(packet, 1)
    BY <1>3, <2>1, <2>2
  <2>4. packet.type = "MsgMetrics" => shown'[1].type = packet.type /\ shown'[1].msg = packet.msg
    BY <1>3, <1>6, <1>10, <2>1
  <2> QED
    BY <2>1, <2>3, <2>4
<1>11. CASE shown' = <<one>> /\ MsgTypeOf(hdr.msg) = Result /\ result.ok
  <2>1. packet.type = "MsgResult"
    BY <1>4, <1>11, <1>13
  <2> QED
    BY <1>3, <1>5, <1>11, <2>1
<1>12. CASE /\ shown' = <<one>> \o <<two>> /\ MsgTypeOf(hdr.msg) = Result
            /\ result.ok /\ IsOK(result.msg.rc) /\ getMetrics /\ metrics.ok
  <2>1. Len(shown') = 2 /\ shown'[1] = one /\ shown'[2] = two
    BY <1>7, <1>12
  <2>2. packet.type = "MsgResult"
    BY <1>4, <1>12, <1>13
  <2>3. shown'[1].type = packet.type /\ shown'[1].msg = packet.msg
    BY <1>3, <1>5, <1>12, <2>1, <2>2
  <2>4. IsOK(packet.msg.rc) /\ what = "MsgMetrics"
    BY <1>5, <1>12, <2>2
  <2>5. Taken(packet, 2)
    BY <1>3, <2>1, <2>2, <2>4
  <2>6. 1..Len(shown') = {1, 2}
    BY <2>1
  <2> QED
    BY <2>2, <2>3, <2>5, <2>6
<1> QED
  BY <1>1, <1>4, <1>8, <1>9, <1>10, <1>11, <1>12

LEMMA NextParsed ==
  PacketInv /\ HeaderFirst /\ PacketReadsBack /\ PacketParsedAsSent
  /\ [PacketNext]_packetVars => PacketParsedAsSent'
<1> SUFFICES ASSUME PacketInv, HeaderFirst, PacketReadsBack, PacketParsedAsSent,
                    [PacketNext]_packetVars
             PROVE  PacketParsedAsSent'
  OBVIOUS
<1>1. ASSUME NEW packet, packet.type \in AdminPackets, NEW stale, ReadPacket(packet, stale)
      PROVE  PacketParsedAsSent'
  <2>1. /\ m_msgbuf = NoBuffer /\ sent' = {packet}
        /\ reading' = reading /\ shown' = shown
    BY <1>1 DEF ReadPacket
  <2>2. reading = "nothing" /\ shown = <<>>
    BY <2>1 DEF PacketInv
  <2>3. packet.type # "nothing"
    BY <1>1, PacketTypes
  <2> QED
    BY <2>1, <2>2, <2>3 DEF PacketParsedAsSent
<1>2. ASSUME NEW type \in AdminPackets, NEW bytes, NEW stale, NEW msg,
             ReadPacket([type |-> type, msg |-> msg, bytes |-> bytes], stale)
      PROVE  PacketParsedAsSent'
  <2> DEFINE packet == [type |-> type, msg |-> msg, bytes |-> bytes]
  <2>1. packet.type \in AdminPackets
    OBVIOUS
  <2> HIDE DEF packet
  <2>2. ReadPacket(packet, stale)
    BY <1>2 DEF packet
  <2> QED
    BY <1>1, <2>1, <2>2
<1>3. CASE ReadCommand
  BY <1>3, PacketTypes, ReadAsParsed DEF ReadCommand
<1>4. CASE ReadResult
  BY <1>4, PacketTypes, ReadAsParsed DEF ReadResult
<1>5. ASSUME NEW getMetrics \in BOOLEAN, ShowAnswer(getMetrics) PROVE PacketParsedAsSent'
  BY <1>5, ShowAnswerParsed
<1>6. CASE UNCHANGED packetVars
  BY <1>6 DEF packetVars, PacketParsedAsSent, TakenForMetrics
<1> QED
  BY <1>2, <1>3, <1>4, <1>5, <1>6 DEF PacketNext

\* ParseMsgHeader, ReadCommand, ReadResult and ExecuteCommand, which parse a packet
\* as a C string before they parse all of it: no packet with zero bytes, and no
\* rest of the buffer, makes them get another message than was sent, but for the
\* metrics that ExecuteCommand looks for in any packet after get_metrics, if the
\* classes read whole packets back and nothing of a part of one.
THEOREM ParsedAsSent ==
  PacketSpec /\ []HeaderFirst /\ []PacketReadsBack => []PacketParsedAsSent
<1>1. PacketInit => PacketParsedAsSent
  BY DEF PacketInit, PacketParsedAsSent
<1> QED
  BY <1>1, PacketInvariant, NextParsed, PTL DEF PacketSpec
=============================================================================
