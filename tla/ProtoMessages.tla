---------------------------- MODULE ProtoMessages ----------------------------
(***************************************************************************)
(* The messages of binlogdump and qdcadm as their users have them: what a  *)
(* message is, how it starts, its setters and its getters.  ProtoWire says *)
(* how it becomes bytes and comes back.                                    *)
(*                                                                         *)
(* A message is a record of its fields and of the unknown fields it keeps: *)
(* a plain scalar is a value, a repeated field a sequence, and what may be *)
(* absent (a submessage, a member of a oneof) a set of at most one value.  *)
(* Strings, bytes and doubles are sequences of bytes, the wire is one too; *)
(* numbers are not negative.                                               *)
(***************************************************************************)
EXTENDS AdminMsg, BinlogEntry, BinlogPackage

Types == AdminTypes @@ EntryTypes @@ PackageTypes

IsMessage(kind) == kind \notin {"varint", "bool", "double", "string", "bytes"}

\* A field that has a has_ function: a submessage or a member of a oneof.
HasPresence(d) == d.label # "repeated" /\ (d.label # "plain" \/ IsMessage(d.kind))

ZeroDouble == [i \in 1..8 |-> 0]
Default(kind) ==
  IF kind \in {"varint", "bool"} THEN 0
  ELSE IF kind = "double" THEN ZeroDouble ELSE <<>>

EmptyOf(fields) ==
  [f \in DOMAIN fields |->
     IF HasPresence(fields[f]) THEN {}
     ELSE IF fields[f].label = "repeated" THEN <<>> ELSE Default(fields[f].kind)]
  @@ [unknown |-> <<>>]

\* A message of each type as its constructor and Clear leave it.
EmptyMessages == [type \in DOMAIN Types |-> EmptyOf(Types[type].fields)]
Empty(type) == EmptyMessages[type]

\* What a getter returns for a field that may be absent.
ValueOr(value, default) == IF value = {} THEN default ELSE CHOOSE v \in value : TRUE

\* A setter (add_ for a repeated field); in a oneof the other members go.
SetIn(fields, m, f, v) ==
  LET d == fields[f]
      others == {g \in DOMAIN fields \ {f} :
                   d.label \notin {"plain", "repeated"} /\ fields[g].label = d.label}
  IN  [g \in DOMAIN m |->
         IF g \in others THEN {}
         ELSE IF g # f THEN m[g]
         ELSE IF d.label = "repeated" THEN Append(m[f], v)
         ELSE IF HasPresence(d) THEN {v} ELSE v]

SetField(type, m, f, v) == SetIn(Types[type].fields, m, f, v)
=============================================================================
