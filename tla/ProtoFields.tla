----------------------------- MODULE ProtoFields -----------------------------
(***************************************************************************)
(* How the tables of the generated message classes are written down.  A    *)
(* field has a kind and a label.  The kind is "varint" (int32, int64 and   *)
(* the enums), "bool", "double", "string", "bytes", or the name of another *)
(* message.  The label is "plain", "repeated", or the oneof it is part of. *)
(***************************************************************************)
EXTENDS Integers, Sequences, TLC

Plain(kind) == [kind |-> kind, label |-> "plain"]
Repeated(kind) == [kind |-> kind, label |-> "repeated"]
Oneof(group, kind) == [kind |-> kind, label |-> group]

\* The tables of a message; tags and writes are pairs of a number and a field.
MessageType(fields, tags, writes) ==
  [fields |-> fields,
   tags |-> [n \in {t[1] : t \in tags} |-> (CHOOSE t \in tags : t[1] = n)[2]],
   writes |-> writes]
=============================================================================
