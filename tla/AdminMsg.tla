------------------------------ MODULE AdminMsg ------------------------------
(***************************************************************************)
(* qdcadm/AdminMsg.pb.h, AdminMsg.pb.cc: the messages between qdcadm and   *)
(* the admin server.                                                       *)
(*                                                                         *)
(* For each message the three tables its generated class consists of:      *)
(* Fields, the members (the class declaration); Tags, the tags that its    *)
(* MergePartialFromCodedStream knows, each with the field it stores to;    *)
(* and Writes, the field numbers that its SerializeWithCachedSizes and     *)
(* InternalSerializeWithCachedSizesToArray write, in their order.          *)
(* ProtoWire says what the generated code does with the tables.            *)
(***************************************************************************)
EXTENDS ProtoFields

\* The header of every admin message: what kind of message it is.
MsgHeaderFields == [msg_type |-> Plain("varint")]
MsgHeaderTags == {<<8, "msg_type">>}
MsgHeaderWrites == <<<<1, "msg_type">>>>

\* What a packet is decoded as first, to see its header.
MsgHeaderWrapFields == [msg_header |-> Plain("MsgHeader")]
MsgHeaderWrapTags == {<<10, "msg_header">>}
MsgHeaderWrapWrites == <<<<1, "msg_header">>>>

\* One value of four types; setting one clears the other three.
MsgValFields == [i32_val |-> Oneof("msg_val", "varint"),
                 i64_val |-> Oneof("msg_val", "varint"),
                 f64_val |-> Oneof("msg_val", "double"),
                 str_val |-> Oneof("msg_val", "string")]
MsgValTags == {<<8, "i32_val">>, <<16, "i64_val">>, <<25, "f64_val">>,
               <<34, "str_val">>}
MsgValWrites == <<<<1, "i32_val">>, <<2, "i64_val">>, <<3, "f64_val">>,
                  <<4, "str_val">>>>

\* A pair<string,double>.
PairStrDblFields == [key |-> Plain("string"), val |-> Plain("double")]
PairStrDblTags == {<<10, "key">>, <<17, "val">>}
PairStrDblWrites == <<<<1, "key">>, <<2, "val">>>>

\* A pair<int,double>: a process and its commits in MsgMetrics.
PairIntDblFields == [key |-> Plain("varint"), val |-> Plain("double")]
PairIntDblTags == {<<8, "key">>, <<17, "val">>}
PairIntDblWrites == <<<<1, "key">>, <<2, "val">>>>

\* A pair<string,string>: a parameter of MsgCmd, a detail of MsgResult.
PairStrStrFields == [key |-> Plain("string"), val |-> Plain("string")]
PairStrStrTags == {<<10, "key">>, <<18, "val">>}
PairStrStrWrites == <<<<1, "key">>, <<2, "val">>>>

\* The result of a command: rc, msg and details.
MsgResultFields == [msg_header |-> Plain("MsgHeader"), rc |-> Plain("string"),
                    msg |-> Plain("string"),
                    rt_pairs |-> Repeated("PairStrStr")]
\* Variant: two fields are stored in each other.
MsgResultTagsSwapped == {<<10, "msg_header">>, <<18, "msg">>, <<26, "rc">>,
                         <<34, "rt_pairs">>}
MsgResultTags == {<<10, "msg_header">>, <<18, "rc">>, <<26, "msg">>,
                  <<34, "rt_pairs">>}
MsgResultWrites == <<<<1, "msg_header">>, <<2, "rc">>, <<3, "msg">>,
                     <<4, "rt_pairs">>>>

\* A command to the admin server and its parameters.
MsgCmdFields == [msg_header |-> Plain("MsgHeader"), cmd |-> Plain("string"),
                 params |-> Repeated("PairStrStr")]
MsgCmdTags == {<<10, "msg_header">>, <<18, "cmd">>, <<26, "params">>}
\* Variant: the header has a number of its own.
MsgCmdWritesRenumbered == <<<<2, "cmd">>, <<3, "params">>, <<4, "msg_header">>>>
MsgCmdWrites == <<<<1, "msg_header">>, <<2, "cmd">>, <<3, "params">>>>

\* The metrics get_metrics asks for.
MsgMetricsFields == [msg_header |-> Plain("MsgHeader"),
                     trans_commit_total |-> Plain("double"),
                     trans_begin_proc |-> Repeated("PairIntDbl")]
MsgMetricsTags == {<<10, "msg_header">>, <<17, "trans_commit_total">>,
                   <<26, "trans_begin_proc">>}
MsgMetricsWrites == <<<<1, "msg_header">>, <<2, "trans_commit_total">>,
                      <<3, "trans_begin_proc">>>>
-----------------------------------------------------------------------------
\* The generated classes of this file.
AdminTypes == [
  MsgHeader |-> MessageType(MsgHeaderFields, MsgHeaderTags, MsgHeaderWrites),
  MsgHeaderWrap |->
    MessageType(MsgHeaderWrapFields, MsgHeaderWrapTags, MsgHeaderWrapWrites),
  MsgVal |-> MessageType(MsgValFields, MsgValTags, MsgValWrites),
  PairStrDbl |-> MessageType(PairStrDblFields, PairStrDblTags, PairStrDblWrites),
  PairIntDbl |-> MessageType(PairIntDblFields, PairIntDblTags, PairIntDblWrites),
  PairStrStr |-> MessageType(PairStrStrFields, PairStrStrTags, PairStrStrWrites),
  MsgResult |-> MessageType(MsgResultFields, MsgResultTags, MsgResultWrites),
  MsgCmd |-> MessageType(MsgCmdFields, MsgCmdTags, MsgCmdWrites),
  MsgMetrics |-> MessageType(MsgMetricsFields, MsgMetricsTags, MsgMetricsWrites)]
=============================================================================
