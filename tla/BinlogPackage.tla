---------------------------- MODULE BinlogPackage ----------------------------
(***************************************************************************)
(* binlogdump/BinlogPackage.pb.h, BinlogPackage.pb.cc: the packets         *)
(* between the binlog server and its clients.                              *)
(*                                                                         *)
(* For each message the three tables its generated class consists of:      *)
(* Fields, the members (the class declaration); Tags, the tags that its    *)
(* MergePartialFromCodedStream knows, each with the field it stores to;    *)
(* and Writes, the field numbers that its SerializeWithCachedSizes and     *)
(* InternalSerializeWithCachedSizesToArray write, in their order.          *)
(* ProtoWire says what the generated code does with the tables.            *)
(***************************************************************************)
EXTENDS ProtoFields

\* What every packet of the binlog server is: a type and a body.
PacketFields == [magic_number |-> Oneof("magic_number_present", "varint"),
                 version |-> Oneof("version_present", "varint"),
                 type |-> Plain("varint"),
                 compression |-> Oneof("compression_present", "varint"),
                 body |-> Plain("bytes")]
PacketTags == {<<8, "magic_number">>, <<16, "version">>, <<24, "type">>,
               <<32, "compression">>, <<42, "body">>}
PacketWrites == <<<<1, "magic_number">>, <<2, "version">>, <<3, "type">>,
                  <<4, "compression">>, <<5, "body">>>>

\* The body of a HEARTBEAT packet.
HeartBeatFields == [send_timestamp |-> Plain("varint"),
                    start_timestamp |-> Plain("varint")]
HeartBeatTags == {<<8, "send_timestamp">>, <<16, "start_timestamp">>}
HeartBeatWrites == <<<<1, "send_timestamp">>, <<2, "start_timestamp">>>>

\* The body of the server's first packet.
HandshakeFields == [
                    communication_encoding |-> Oneof("communication_encoding_present", "string"),
                    seeds |-> Plain("bytes"),
                    supported_compressions |-> Plain("varint")]
HandshakeTags == {<<10, "communication_encoding">>, <<18, "seeds">>,
                  <<24, "supported_compressions">>}
HandshakeWrites == <<<<1, "communication_encoding">>, <<2, "seeds">>,
                     <<3, "supported_compressions">>>>

\* The client's answer to the handshake.
ClientAuthFields == [username |-> Plain("string"),
                     password |-> Plain("bytes"),
                     net_read_timeout |-> Oneof("net_read_timeout_present", "varint"),
                     net_write_timeout |-> Oneof("net_write_timeout_present", "varint"),
                     destination |-> Plain("string"),
                     client_id |-> Plain("string"),
                     filter |-> Plain("string"),
                     start_timestamp |-> Plain("varint")]
ClientAuthTags == {<<10, "username">>, <<18, "password">>,
                   <<24, "net_read_timeout">>, <<32, "net_write_timeout">>,
                   <<42, "destination">>, <<50, "client_id">>,
                   <<58, "filter">>, <<64, "start_timestamp">>}
ClientAuthWrites == <<<<1, "username">>, <<2, "password">>,
                      <<3, "net_read_timeout">>, <<4, "net_write_timeout">>,
                      <<5, "destination">>, <<6, "client_id">>,
                      <<7, "filter">>, <<8, "start_timestamp">>>>

\* The server's verdict.
AckFields == [error_code |-> Oneof("error_code_present", "varint"),
              error_message |-> Plain("string")]
AckTags == {<<8, "error_code">>, <<18, "error_message">>}
AckWrites == <<<<1, "error_code">>, <<2, "error_message">>>>

\* The client has consumed a batch.
ClientAckFields == [destination |-> Plain("string"),
                    client_id |-> Plain("string"),
                    batch_id |-> Plain("varint")]
ClientAckTags == {<<10, "destination">>, <<18, "client_id">>,
                  <<24, "batch_id">>}
ClientAckWrites == <<<<1, "destination">>, <<2, "client_id">>,
                     <<3, "batch_id">>>>

\* A subscription.
SubFields == [destination |-> Plain("string"), client_id |-> Plain("string"),
              filter |-> Plain("string")]
SubTags == {<<10, "destination">>, <<18, "client_id">>, <<58, "filter">>}
SubWrites == <<<<1, "destination">>, <<2, "client_id">>, <<7, "filter">>>>

\* The end of a subscription.
UnsubFields == [destination |-> Plain("string"),
                client_id |-> Plain("string"), filter |-> Plain("string")]
UnsubTags == {<<10, "destination">>, <<18, "client_id">>, <<58, "filter">>}
UnsubWrites == <<<<1, "destination">>, <<2, "client_id">>, <<7, "filter">>>>

\* A request for a batch.
GetFields == [destination |-> Plain("string"), client_id |-> Plain("string"),
              fetch_size |-> Plain("varint"),
              timeout |-> Oneof("timeout_present", "varint"),
              unit |-> Oneof("unit_present", "varint"),
              auto_ack |-> Oneof("auto_ack_present", "bool")]
GetTags == {<<10, "destination">>, <<18, "client_id">>, <<24, "fetch_size">>,
            <<32, "timeout">>, <<40, "unit">>, <<48, "auto_ack">>}
GetWrites == <<<<1, "destination">>, <<2, "client_id">>, <<3, "fetch_size">>,
               <<4, "timeout">>, <<5, "unit">>, <<6, "auto_ack">>>>

\* A batch of entries, each serialised.
MessagesFields == [batch_id |-> Plain("varint"),
                   messages |-> Repeated("bytes")]
MessagesTags == {<<8, "batch_id">>, <<18, "messages">>}
MessagesWrites == <<<<1, "batch_id">>, <<2, "messages">>>>

\* Where a dump is to start.
DumpFields == [journal |-> Plain("string"), position |-> Plain("varint"),
               timestamp |-> Oneof("timestamp_present", "varint"),
               gtid |-> Plain("string")]
DumpTags == {<<10, "journal">>, <<16, "position">>, <<24, "timestamp">>,
             <<34, "gtid">>}
DumpWrites == <<<<1, "journal">>, <<2, "position">>, <<3, "timestamp">>,
                <<4, "gtid">>>>

\* The client has not consumed a batch.
ClientRollbackFields == [destination |-> Plain("string"),
                         client_id |-> Plain("string"),
                         batch_id |-> Plain("varint")]
ClientRollbackTags == {<<10, "destination">>, <<18, "client_id">>,
                       <<24, "batch_id">>}
ClientRollbackWrites == <<<<1, "destination">>, <<2, "client_id">>,
                          <<3, "batch_id">>>>
-----------------------------------------------------------------------------
\* The generated classes of this file.
PackageTypes == [
  Packet |-> MessageType(PacketFields, PacketTags, PacketWrites),
  HeartBeat |-> MessageType(HeartBeatFields, HeartBeatTags, HeartBeatWrites),
  Handshake |-> MessageType(HandshakeFields, HandshakeTags, HandshakeWrites),
  ClientAuth |-> MessageType(ClientAuthFields, ClientAuthTags, ClientAuthWrites),
  Ack |-> MessageType(AckFields, AckTags, AckWrites),
  ClientAck |-> MessageType(ClientAckFields, ClientAckTags, ClientAckWrites),
  Sub |-> MessageType(SubFields, SubTags, SubWrites),
  Unsub |-> MessageType(UnsubFields, UnsubTags, UnsubWrites),
  Get |-> MessageType(GetFields, GetTags, GetWrites),
  Messages |-> MessageType(MessagesFields, MessagesTags, MessagesWrites),
  Dump |-> MessageType(DumpFields, DumpTags, DumpWrites),
  ClientRollback |->
    MessageType(ClientRollbackFields, ClientRollbackTags, ClientRollbackWrites)]
=============================================================================
