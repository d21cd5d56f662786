----------------------------- MODULE AdmPackets -----------------------------
(***************************************************************************)
(* qdcadm/CAdmMsg.cpp: the buffer of CMsgRW and how the messages are read  *)
(* from it.  The length of a packet goes before it, so it may hold any     *)
(* byte; yet a parser is first given m_msgbuf as a C string, which ends at *)
(* the first zero byte, and only if that fails all of the packet.          *)
(*                                                                         *)
(* Every CMsgRW of the program is new and reads one packet.                *)
(***************************************************************************)
EXTENDS Codec, FiniteSetsExt

CONSTANTS
  LEN_ADM_PKG,  \* the bytes m_buf is for
  MAX_ADM_PKG   \* no packet is longer

ASSUME PacketAssumption ==
  LEN_ADM_PKG \in Nat /\ MAX_ADM_PKG \in Nat /\ LEN_ADM_PKG <= MAX_ADM_PKG

\* MsgType.
Result == 0
Command == 1
Metrics == 2

VARIABLES
  sent,         \* the packet: at most one, with its type and message
  m_msgbuf,     \* the buffer, once a packet was read
  m_lenmsg,     \* the length of the packet
  reading,      \* what the caller reads it as
  shown         \* the messages the caller got out of it, with their types

packetVars == <<sent, m_msgbuf, m_lenmsg, reading, shown>>

\* The messages that are sent as packets, each with the type in its header.
PacketHeader == [MsgCmd |-> Command, MsgResult |-> Result, MsgMetrics |-> Metrics]
AdminPackets == DOMAIN PacketHeader

MakeMsgHdr(t, m) ==
  SetField(t, m, "msg_header",
           SetField("MsgHeader", Empty("MsgHeader"), "msg_type", PacketHeader[t]))

NoBuffer == <<>>
PacketInit ==
  /\ sent = {} /\ m_msgbuf = NoBuffer /\ m_lenmsg = 0
  /\ reading = "nothing" /\ shown = <<>>

-----------------------------------------------------------------------------
(* ReadPacket *)

\* Variant: a byte too few for the terminator.
BufferSizeExact(len) == IF len > LEN_ADM_PKG THEN len ELSE LEN_ADM_PKG

\* m_buf, or a buffer of its own for a large packet.
BufferSize(len) == IF len > LEN_ADM_PKG THEN len + 2 ELSE LEN_ADM_PKG + 2

\* Variant: the packet is not terminated.
FillBufferOpen(bytes, size, stale) ==
  [i \in 1..size |-> IF i <= Len(bytes) THEN bytes[i] ELSE stale]

\* m_msgbuf after a packet was read: the packet, the terminator that is set at
\* index len, and what was there before.
FillBuffer(bytes, size, stale) ==
  [i \in 1..size |-> IF i <= Len(bytes) THEN bytes[i]
                     ELSE IF i = Len(bytes) + 1 THEN 0 ELSE stale]

\* Variant: the limit is not checked.
ReadPacketAnySize(packet, stale) ==
  /\ m_msgbuf = NoBuffer
  /\ sent' = {packet}
  /\ m_msgbuf' = FillBuffer(packet.bytes, BufferSize(Len(packet.bytes)), stale)
  /\ m_lenmsg' = Len(packet.bytes)
  /\ UNCHANGED <<reading, shown>>

\* ReadPacket of a new CMsgRW; a packet that is too long is not read.
ReadPacket(packet, stale) ==
  /\ m_msgbuf = NoBuffer /\ Len(packet.bytes) <= MAX_ADM_PKG
  /\ sent' = {packet}
  /\ m_msgbuf' = FillBuffer(packet.bytes, BufferSize(Len(packet.bytes)), stale)
  /\ m_lenmsg' = Len(packet.bytes)
  /\ UNCHANGED <<reading, shown>>

-----------------------------------------------------------------------------
(* The messages of the packet *)

\* std::string of a char pointer: up to the first zero byte.
CString(buf) ==
  LET ends == {i \in 1..Len(buf) : buf[i] = 0}
  IN  SubSeq(buf, 1, IF ends = {} THEN Len(buf) ELSE Min(ends) - 1)

\* m_msgbuf as a C string and as an array of m_lenmsg bytes.
Text == CString(m_msgbuf)
Array == SubSeq(m_msgbuf, 1, m_lenmsg)

\* Two parses, the second if the first fails.
ParseEither(type, first, second) ==
  LET parsed == Parse(type, first)
  IN  IF parsed.ok THEN parsed ELSE Parse(type, second)

\* The one caller looks at the packet that was read.
ReadBuffer(what) ==
  /\ m_msgbuf # NoBuffer /\ reading = "nothing" /\ reading' = what
  /\ UNCHANGED <<sent, m_msgbuf, m_lenmsg>>

\* msg_header().msg_type(): a header that is not there has the type 0, Result.
MsgTypeOf(m) == ValueOr(m.msg_header, Empty("MsgHeader")).msg_type

\* ReadCommand and ReadResult after ReadPacket: the header first, then the
\* message, if it is of the type that is read; nothing of an empty packet.
ReadAs(type) ==
  /\ ReadBuffer(type)
  /\ \E hdr \in {ParseEither("MsgHeaderWrap", Text, Array)},
        body \in {ParseEither(type, Text, Array)} :
       shown' = IF /\ m_lenmsg > 0 /\ hdr.ok
                   /\ MsgTypeOf(hdr.msg) = PacketHeader[type] /\ body.ok
                THEN <<[type |-> type, msg |-> body.msg]>> ELSE <<>>

ReadCommand == ReadAs("MsgCmd")
ReadResult == ReadAs("MsgResult")

\* RC_OK, compared by strcasecmp.
IsOK(rc) == CString(rc) \in {79, 111} \X {75, 107}

\* ExecuteCommand, qdcadm.cpp from line 93: what it shows of the packet.  After
\* get_metrics it is also parsed as MsgMetrics, all of the packet first.
ShowAnswer(getMetrics) ==
  /\ ReadBuffer(IF getMetrics THEN "MsgMetrics" ELSE "MsgResult")
  /\ \E hdr \in {ParseEither("MsgHeaderWrap", Text, Array)},
        result \in {ParseEither("MsgResult", Text, Array)},
        metrics \in {ParseEither("MsgMetrics", Array, Text)} :
       LET shownResult == <<[type |-> "MsgResult", msg |-> result.msg]>>
           shownMetrics == IF getMetrics /\ metrics.ok
                           THEN <<[type |-> "MsgMetrics", msg |-> metrics.msg]>> ELSE <<>>
       IN  shown' = IF m_lenmsg <= 0 \/ ~hdr.ok THEN <<>>
                    ELSE IF MsgTypeOf(hdr.msg) # Result THEN shownMetrics
                    ELSE IF ~result.ok THEN <<>>
                    ELSE IF ~IsOK(result.msg.rc) THEN shownResult
                    ELSE shownResult \o shownMetrics

\* Any packet of bytes is read into a buffer that holds any bytes, and looked at.
PacketNext ==
  \/ \E type \in AdminPackets, bytes \in Seq(0..255), stale \in 0..255 : \E msg :
       ReadPacket([type |-> type, msg |-> msg, bytes |-> bytes], stale)
  \/ ReadCommand \/ ReadResult \/ \E getMetrics \in BOOLEAN : ShowAnswer(getMetrics)

PacketSpec == PacketInit /\ [][PacketNext]_packetVars

-----------------------------------------------------------------------------
(* Properties *)

\* The buffer holds bytes, no packet is longer than MAX_ADM_PKG, and a caller
\* gets at most two messages.
PacketTypeOK ==
  /\ m_msgbuf \in Seq(0..255) /\ m_lenmsg \in 0..MAX_ADM_PKG
  /\ reading \in AdminPackets \cup {"nothing"} /\ Len(shown) \in 0..2

\* The rule of AdminMsg.proto, line 26: decode a packet as MsgHeaderWrap first.
\* It gives the header whatever follows it, also where the rest cannot be parsed,
\* and with it the type of the packet.
HeaderFirst ==
  \A packet \in sent :
    LET wrap == Parse("MsgHeaderWrap", packet.bytes)
    IN  /\ wrap.ok /\ wrap.msg.msg_header = packet.msg.msg_header
        /\ MsgTypeOf(wrap.msg) = PacketHeader[packet.type]

\* What the classes do for a packet: all of it is parsed to the message that was
\* sent, if its text is UTF-8, and the part before its first zero byte, which is
\* what a C string leaves of it, is parsed to nothing.
PacketReadsBack ==
  \A packet \in sent :
    LET parsed == Parse(packet.type, packet.bytes)
        part == CString(packet.bytes)
    IN  /\ packet.bytes # <<>>
        /\ parsed.ok = TextOk(packet.type, packet.msg)
        /\ parsed.ok => parsed.msg = packet.msg
        /\ part # packet.bytes =>
             \A type \in {"MsgHeaderWrap", packet.type} : ~Parse(type, part).ok

\* After get_metrics the program takes the packet for a MsgMetrics too, whatever
\* type its header has: a MsgResult after it was shown as that and is OK.
TakenForMetrics(packet, i) ==
  /\ reading = "MsgMetrics" /\ shown[i].type = "MsgMetrics" /\ packet.type # "MsgMetrics"
  /\ packet.type = "MsgResult" => i = 2 /\ IsOK(packet.msg.rc)

\* What a caller gets is the message that was sent, with its type, although the
\* packet is first parsed as a C string: neither the part before a zero byte nor
\* what is in the buffer behind the packet is ever taken for it.  The exception is
\* ExecuteCommand after get_metrics, where a packet of another type may be shown as
\* a MsgMetrics in addition (qdcadm.cpp, from line 123), against AdminMsg.proto,
\* line 26, by which msg_type decides.  What is read as the type that was sent is
\* got, if its text is UTF-8; a zero byte, which is in every MsgResult, whose type
\* is 0, does no harm.
PacketParsedAsSent ==
  \A packet \in sent :
    /\ \A i \in 1..Len(shown) :
         \/ shown[i].type = packet.type /\ shown[i].msg = packet.msg
         \/ TakenForMetrics(packet, i)
    /\ reading = packet.type /\ TextOk(packet.type, packet.msg) =>
         \E i \in 1..Len(shown) : shown[i].type = packet.type

\* The packet and its terminator are within the buffer, at every size: m_buf has
\* two bytes more than LEN_ADM_PKG, and a buffer of its own two more than len.
BufferHolds ==
  m_msgbuf # NoBuffer => m_lenmsg < Len(m_msgbuf) /\ m_msgbuf[m_lenmsg + 1] = 0
=============================================================================
