----------------------------- MODULE BinlogEntry -----------------------------
(***************************************************************************)
(* binlogdump/BinlogEntry.pb.h and BinlogEntry.pb.cc: the entries of the   *)
(* binlog.                                                                 *)
(*                                                                         *)
(* For each message the three tables its generated class consists of:      *)
(* Fields, the members (the class declaration); Tags, the tags that its    *)
(* MergePartialFromCodedStream knows, each with the field it stores to;    *)
(* and Writes, the field numbers that its SerializeWithCachedSizes and     *)
(* InternalSerializeWithCachedSizesToArray write, in their order.          *)
(* ProtoWire says what the generated code does with the tables.            *)
(***************************************************************************)
EXTENDS ProtoFields

\* What one Kafka message, or one element of Messages, carries: a header, the
\* kind of entry, and another message serialised in storeValue.
EntryFields == [header |-> Plain("Header"),
                entryType |-> Oneof("entryType_present", "varint"),
                storeValue |-> Plain("bytes")]
EntryTags == {<<10, "header">>, <<16, "entryType">>, <<26, "storeValue">>}
EntryWrites == <<<<1, "header">>, <<2, "entryType">>, <<3, "storeValue">>>>

\* Where an entry comes from: file, position, table, time, kind of change.
HeaderFields == [version |-> Oneof("version_present", "varint"),
                 logfileName |-> Plain("string"),
                 logfileOffset |-> Plain("varint"),
                 serverId |-> Plain("varint"),
                 serverenCode |-> Plain("string"),
                 executeTime |-> Plain("varint"),
                 sourceType |-> Oneof("sourceType_present", "varint"),
                 schemaName |-> Plain("string"),
                 tableName |-> Plain("string"),
                 eventLength |-> Plain("varint"),
                 eventType |-> Oneof("eventType_present", "varint"),
                 props |-> Repeated("Pair"), gtid |-> Plain("string")]

\* Variant: two fields are stored in each other.
HeaderTagsSwapped == {<<8, "version">>, <<18, "serverenCode">>,
                      <<24, "logfileOffset">>, <<32, "serverId">>,
                      <<42, "logfileName">>, <<48, "executeTime">>,
                      <<56, "sourceType">>, <<66, "schemaName">>, <<74, "tableName">>,
                      <<80, "eventLength">>, <<88, "eventType">>, <<98, "props">>,
                      <<106, "gtid">>}
HeaderTags == {<<8, "version">>, <<18, "logfileName">>,
               <<24, "logfileOffset">>, <<32, "serverId">>,
               <<42, "serverenCode">>, <<48, "executeTime">>,
               <<56, "sourceType">>, <<66, "schemaName">>, <<74, "tableName">>,
               <<80, "eventLength">>, <<88, "eventType">>, <<98, "props">>,
               <<106, "gtid">>}
HeaderWrites == <<<<1, "version">>, <<2, "logfileName">>,
                  <<3, "logfileOffset">>, <<4, "serverId">>,
                  <<5, "serverenCode">>, <<6, "executeTime">>,
                  <<7, "sourceType">>, <<8, "schemaName">>,
                  <<9, "tableName">>, <<10, "eventLength">>,
                  <<11, "eventType">>, <<12, "props">>, <<13, "gtid">>>>

\* A column of a row, before or after a change.
ColumnFields == [index |-> Plain("varint"), sqlType |-> Plain("varint"),
                 name |-> Plain("string"), isKey |-> Plain("bool"),
                 updated |-> Plain("bool"),
                 isNull |-> Oneof("isNull_present", "bool"),
                 props |-> Repeated("Pair"), value |-> Plain("string"),
                 length |-> Plain("varint"), mysqlType |-> Plain("string")]
ColumnTags == {<<8, "index">>, <<16, "sqlType">>, <<26, "name">>,
               <<32, "isKey">>, <<40, "updated">>, <<48, "isNull">>,
               <<58, "props">>, <<66, "value">>, <<72, "length">>,
               <<82, "mysqlType">>}
ColumnWrites == <<<<1, "index">>, <<2, "sqlType">>, <<3, "name">>,
                  <<4, "isKey">>, <<5, "updated">>, <<6, "isNull">>,
                  <<7, "props">>, <<8, "value">>, <<9, "length">>,
                  <<10, "mysqlType">>>>

\* A row that was changed: its columns before and after.
RowDataFields == [beforeColumns |-> Repeated("Column"),
                  afterColumns |-> Repeated("Column"),
                  props |-> Repeated("Pair")]
RowDataTags == {<<10, "beforeColumns">>, <<18, "afterColumns">>,
                <<26, "props">>}
RowDataWrites == <<<<1, "beforeColumns">>, <<2, "afterColumns">>,
                   <<3, "props">>>>

\* The store value of a ROWDATA entry: the rows of one change, or a DDL.
RowChangeFields == [tableId |-> Plain("varint"),
                    eventType |-> Oneof("eventType_present", "varint"),
                    isDdl |-> Oneof("isDdl_present", "bool"),
                    sql |-> Plain("string"), rowDatas |-> Repeated("RowData"),
                    props |-> Repeated("Pair"),
                    ddlSchemaName |-> Plain("string")]
RowChangeTags == {<<8, "tableId">>, <<16, "eventType">>, <<80, "isDdl">>,
                  <<90, "sql">>, <<98, "rowDatas">>, <<106, "props">>,
                  <<114, "ddlSchemaName">>}
RowChangeWrites == <<<<1, "tableId">>, <<2, "eventType">>, <<10, "isDdl">>,
                     <<11, "sql">>, <<12, "rowDatas">>, <<13, "props">>,
                     <<14, "ddlSchemaName">>>>

\* The store value of a TRANSACTIONBEGIN entry.
TransactionBeginFields == [executeTime |-> Plain("varint"),
                           transactionId |-> Plain("string"),
                           props |-> Repeated("Pair"),
                           threadId |-> Plain("varint")]
TransactionBeginTags == {<<8, "executeTime">>, <<18, "transactionId">>,
                         <<26, "props">>, <<32, "threadId">>}
TransactionBeginWrites == <<<<1, "executeTime">>, <<2, "transactionId">>,
                            <<3, "props">>, <<4, "threadId">>>>

\* The store value of a TRANSACTIONEND entry.
TransactionEndFields == [executeTime |-> Plain("varint"),
                         transactionId |-> Plain("string"),
                         props |-> Repeated("Pair")]
TransactionEndTags == {<<8, "executeTime">>, <<18, "transactionId">>,
                       <<26, "props">>}
TransactionEndWrites == <<<<1, "executeTime">>, <<2, "transactionId">>,
                          <<3, "props">>>>

\* A key and a value, the extension of most messages.
PairFields == [key |-> Plain("string"), value |-> Plain("string")]
PairTags == {<<10, "key">>, <<18, "value">>}
PairWrites == <<<<1, "key">>, <<2, "value">>>>
-----------------------------------------------------------------------------
\* The generated classes of this file.
EntryTypes == [
  Entry |-> MessageType(EntryFields, EntryTags, EntryWrites),
  Header |-> MessageType(HeaderFields, HeaderTags, HeaderWrites),
  Column |-> MessageType(ColumnFields, ColumnTags, ColumnWrites),
  RowData |-> MessageType(RowDataFields, RowDataTags, RowDataWrites),
  RowChange |-> MessageType(RowChangeFields, RowChangeTags, RowChangeWrites),
  TransactionBegin |->
    MessageType(TransactionBeginFields, TransactionBeginTags, TransactionBeginWrites),
  TransactionEnd |->
    MessageType(TransactionEndFields, TransactionEndTags, TransactionEndWrites),
  Pair |-> MessageType(PairFields, PairTags, PairWrites)]
=============================================================================
