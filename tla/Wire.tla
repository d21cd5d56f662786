-------------------------------- MODULE Wire --------------------------------
(***************************************************************************)
(* From a message that a program builds with its setters to what the       *)
(* receiver makes of the bytes.  Any message of the three .proto files can *)
(* be built.  The messages of the admin server go as packets to a CMsgRW   *)
(* (AdmPackets); an Entry goes to the topic, which binlogdumpK prints and  *)
(* the Flink job reads, each at its own pace (BinlogConsumers).            *)
(*                                                                         *)
(* Who builds a packet or an entry may be the server, which is external.   *)
(***************************************************************************)
EXTENDS AdmPackets, WireSamples

CONSTANTS
  StaleBytes,   \* bytes that new memory may hold
  MaxSets,      \* bound: calls of setters per message
  MaxEntries    \* bound: the entries of the topic

\* The sender: the message that is built, and the row change whose bytes are in
\* the storeValue of an Entry.
VARIABLES type, msg, sets, stored

senderVars == <<type, msg, sets, stored>>
consumerVars == <<topic, printerVars, jobVars>>
vars == <<senderVars, packetVars, consumerVars>>

Started(t) ==
  IF t \in AdminPackets THEN {MakeMsgHdr(t, Empty(t)), MakeMsgHdr(t, Full(t))}
  ELSE {Empty(t), Full(t)}

Init ==
  /\ type \in DOMAIN Types /\ sets = 0
  /\ IF type = "Entry"
     THEN \E e \in FirstEntries : msg = EntryOf(e) /\ stored = e.change
     ELSE msg \in Started(type) /\ stored = Empty("RowChange")
  /\ PacketInit /\ ConsumersInit

\* A call of a setter.
Set ==
  /\ m_msgbuf = NoBuffer /\ topic = <<>> /\ sets < MaxSets
  /\ \E f \in DOMAIN Types[type].fields : \E v \in Samples(type, f) :
       /\ ~(type \in AdminPackets /\ f = "msg_header")
       /\ msg' = SetField(type, msg, f, v)
  /\ sets' = sets + 1
  /\ UNCHANGED <<type, stored, packetVars, consumerVars>>

\* SerializeToString, SendPacket, and ReadPacket.
SendMessage ==
  /\ type \in AdminPackets
  /\ \E stale \in StaleBytes :
       ReadPacket([type |-> type, msg |-> msg, bytes |-> Serialize(type, msg)], stale)
  /\ UNCHANGED <<senderVars, consumerVars>>

\* The receiver reads a command, the result of one, or any answer.
ReceiveCommand == ReadCommand /\ UNCHANGED <<senderVars, consumerVars>>
ReceiveResult == ReadResult /\ UNCHANGED <<senderVars, consumerVars>>
ReceiveAnswer ==
  /\ \E getMetrics \in BOOLEAN : ShowAnswer(getMetrics)
  /\ UNCHANGED <<senderVars, consumerVars>>

\* The server produces the entry and starts the next.
ProduceEntry ==
  /\ type = "Entry" /\ Len(topic) < MaxEntries
  /\ Produce([header |-> msg.header, entryType |-> msg.entryType, change |-> stored])
  /\ \E e \in NextEntries : msg' = EntryOf(e) /\ stored' = e.change
  /\ UNCHANGED <<type, sets, packetVars>>

\* binlogdumpK and the Flink job.
Consume ==
  /\ PrintEntry \/ ProcessEntry
  /\ UNCHANGED <<senderVars, packetVars>>

Next ==
  \/ Set \/ SendMessage \/ ReceiveCommand \/ ReceiveResult \/ ReceiveAnswer
  \/ ProduceEntry \/ Consume

Spec == Init /\ [][Next]_vars

-----------------------------------------------------------------------------
(* Properties; those of AdmPackets and BinlogConsumers are checked with them *)

\* The variables keep their types; only entries of AllEntries are in the topic.
TypeOK ==
  /\ type \in DOMAIN Types /\ DOMAIN msg = DOMAIN Empty(type) /\ sets \in 0..MaxSets
  /\ PacketTypeOK /\ ConsumersTypeOK /\ Len(topic) <= MaxEntries

\* What a program serialises the other one parses to the same message, field
\* for field and with nothing unknown, and the size that is computed before is
\* the size that is written; only text that is no UTF-8, which a writer does not
\* check, makes the reader fail.  About the writing and the reading code of each
\* generated class, which know the fields and their numbers independently.
RoundTrip ==
  LET wire == Serialize(type, msg)
      parsed == ParseFrom(type, wire)
  IN  /\ ByteSize(type, msg) = Len(wire)
      /\ parsed.ok = ValidText(type, msg)
      /\ parsed.ok => parsed.msg = msg
=============================================================================
