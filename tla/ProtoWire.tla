------------------------------ MODULE ProtoWire ------------------------------
(***************************************************************************)
(* What the generated code of binlogdump and qdcadm does with the tables   *)
(* of the messages: ByteSizeLong, SerializeWithCachedSizes and             *)
(* MergePartialFromCodedStream.  The protobuf library that they call       *)
(* (varints, the skipping of unknown fields, the UTF-8 check) is external. *)
(***************************************************************************)
EXTENDS ProtoMessages, SequencesExt

-----------------------------------------------------------------------------
(* The library *)

\* A varint: seven bits a byte, the lowest first.
RECURSIVE Varint(_)
Varint(n) == IF n < 128 THEN <<n>> ELSE <<128 + (n % 128)>> \o Varint(n \div 128)

Failed == [ok |-> FALSE, v |-> 0, rest |-> <<>>]

RECURSIVE ReadVarint(_)
ReadVarint(in) ==
  IF in = <<>> THEN Failed
  ELSE IF in[1] < 128 THEN [ok |-> TRUE, v |-> in[1], rest |-> Tail(in)]
  ELSE LET r == ReadVarint(Tail(in))
       IN  [r EXCEPT !.v = IF r.ok THEN in[1] - 128 + 128 * @ ELSE @]

ReadBytes(n, in) ==
  IF n > Len(in) THEN Failed
  ELSE [ok |-> TRUE, v |-> SubSeq(in, 1, n), rest |-> SubSeq(in, n + 1, Len(in))]

\* The payload after a tag, by its wire type.  No message has groups.
ReadPayload(wireType, in) ==
  CASE wireType = 0 -> ReadVarint(in)
    [] wireType = 1 -> ReadBytes(8, in)
    [] wireType = 2 -> LET n == ReadVarint(in)
                       IN  IF n.ok THEN ReadBytes(n.v, n.rest) ELSE n
    [] wireType = 5 -> ReadBytes(4, in)
    [] OTHER -> Failed

\* The input field by field; the last one may be cut off.  No field has number 0.
RECURSIVE Items(_)
Items(in) ==
  LET tag == ReadVarint(in)
      payload == IF tag.v < 8 THEN Failed ELSE ReadPayload(tag.v % 8, tag.rest)
      item == [ok |-> payload.ok, tag |-> tag.v, payload |-> payload.v,
               bytes |-> SubSeq(in, 1, Len(in) - Len(payload.rest))]
  IN  IF in = <<>> THEN <<>>
      ELSE IF payload.ok THEN <<item>> \o Items(payload.rest) ELSE <<item>>

WireType(kind) ==
  IF kind \in {"varint", "bool"} THEN 0 ELSE IF kind = "double" THEN 1 ELSE 2

\* VerifyUtf8String: 255 stands for every byte that makes text no UTF-8.
Utf8(s) == 255 \notin {s[i] : i \in 1..Len(s)}

-----------------------------------------------------------------------------
(* The generated code *)

\* The values of a field that are written: a plain scalar if it is not the
\* default, a member of a oneof also if it is.
Written(d, value) ==
  IF d.label = "repeated" THEN value
  ELSE IF HasPresence(d) THEN SetToSeq(value)
  ELSE IF value = Default(d.kind) THEN <<>> ELSE <<value>>

\* The fields of a message that have something to be written, in their order.
WrittenFields(type, m) ==
  SelectSeq(Types[type].writes,
            LAMBDA w : Written(Types[type].fields[w[2]], m[w[2]]) # <<>>)

\* ByteSizeLong, which leaves its result in _cached_size_ of every submessage.
RECURSIVE ByteSize(_, _)
ByteSize(type, m) ==
  LET Size(kind, v) ==
        IF IsMessage(kind) THEN LET n == ByteSize(kind, v) IN Len(Varint(n)) + n
        ELSE IF kind \in {"string", "bytes"} THEN Len(Varint(Len(v))) + Len(v)
        ELSE IF kind = "double" THEN 8
        ELSE IF kind = "bool" THEN 1 ELSE Len(Varint(v))
      OfField(n, d, value) ==
        FoldLeft(LAMBDA sum, v : sum + Len(Varint(8 * n)) + Size(d.kind, v),
                 0, Written(d, value))
  IN  FoldLeft(LAMBDA sum, w : sum + OfField(w[1], Types[type].fields[w[2]], m[w[2]]),
               Len(m.unknown), WrittenFields(type, m))

\* SerializeWithCachedSizes: the fields in the order of Writes, a submessage
\* after its cached size, then the unknown fields.  Text is not checked.
RECURSIVE Serialize(_, _)
Serialize(type, m) ==
  LET Payload(kind, v) ==
        IF IsMessage(kind) THEN Varint(ByteSize(kind, v)) \o Serialize(kind, v)
        ELSE IF kind \in {"string", "bytes"} THEN Varint(Len(v)) \o v
        ELSE IF kind = "double" THEN v ELSE Varint(v)
      Field(n, d, value) ==
        FoldLeft(LAMBDA out, v :
                   out \o Varint(8 * n + WireType(d.kind)) \o Payload(d.kind, v),
                 <<>>, Written(d, value))
  IN  FoldLeft(LAMBDA out, w : out \o Field(w[1], Types[type].fields[w[2]], m[w[2]]),
               <<>>, WrittenFields(type, m))
      \o m.unknown

\* What is read for field f is stored in m, text also if it is no UTF-8; of a
\* submessage it is what merging it in gives.
StoreItem(fields, m, f, payload, submessage) ==
  IF IsMessage(fields[f].kind)
  THEN [ok |-> submessage.ok, msg |-> SetIn(fields, m, f, submessage.msg)]
  ELSE [ok |-> fields[f].kind = "string" => Utf8(payload),
        msg |-> SetIn(fields, m, f,
                      IF fields[f].kind = "bool" /\ payload # 0 THEN 1 ELSE payload)]

\* MergePartialFromCodedStream: field after field is stored in m, until the
\* input ends or one of them fails; what was stored before stays.  A tag that
\* the message does not know is skipped and kept.
RECURSIVE MergePartial(_, _, _)
MergePartial(t, m, in) ==
  LET \* The submessage that f holds, or a new one.
      Old(msg, f) ==
        ValueOr(IF t.fields[f].label = "repeated" THEN {} ELSE msg[f],
                Empty(t.fields[f].kind))
      Store(msg, f, payload) ==
        StoreItem(t.fields, msg, f, payload,
                  MergePartial(Types[t.fields[f].kind], Old(msg, f), payload))
  IN  FoldLeft(LAMBDA r, item :
                 IF ~r.ok \/ ~item.ok THEN [r EXCEPT !.ok = FALSE]
                 ELSE IF item.tag \in DOMAIN t.tags
                 THEN Store(r.msg, t.tags[item.tag], item.payload)
                 ELSE [r EXCEPT !.msg.unknown = @ \o item.bytes],
               [ok |-> TRUE, msg |-> m], Items(in))

\* ParseFromString and ParseFromArray: Clear, then read all of the input.
ParseFrom(type, in) == MergePartial(Types[type], Empty(type), in)

\* All text in a message is UTF-8.
RECURSIVE ValidText(_, _)
ValidText(t, m) ==
  \A f \in DOMAIN Types[t].fields :
    LET d == Types[t].fields[f]
        value == IF HasPresence(d) THEN m[f]
                 ELSE IF d.label = "repeated" THEN ToSet(m[f]) ELSE {m[f]}
    IN  \A v \in value : IF IsMessage(d.kind) THEN ValidText(d.kind, v)
                         ELSE d.kind = "string" => Utf8(v)
=============================================================================
