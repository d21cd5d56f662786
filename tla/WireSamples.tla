---------------------------- MODULE WireSamples ----------------------------
(***************************************************************************)
(* The bounds of Wire: for each kind of field a few values, with the ones  *)
(* that are hard to carry: zero bytes, numbers of two bytes, text that is  *)
(* no UTF-8; and the row changes and headers of entries.                   *)
(***************************************************************************)
EXTENDS BinlogConsumers, ProtoWire

\* A message with something in every field.
RECURSIVE Full(_)
Full(t) ==
  LET Value(kind) ==
        CASE kind = "varint" -> 300
          [] kind = "bool" -> 1
          [] kind = "double" -> <<0, 0, 0, 0, 0, 0, 240, 63>>
          [] kind \in {"string", "bytes"} -> <<66, 0>>
          [] OTHER -> Full(kind)
  IN  FoldLeft(LAMBDA m, w : SetField(t, m, w[2], Value(Types[t].fields[w[2]].kind)),
               Empty(t), Types[t].writes)

Col(name, value) ==
  SetField("Column", SetField("Column", Empty("Column"), "name", name), "value", value)

\* The account with the id 7, balances of 0, 5, 9 and -5, a value that is no number
\* and a column whose name is no UTF-8.
Id == Col(AccountId, <<55>>)
Zero == Col(Balance, <<48>>)
Five == Col(Balance, <<53>>)
Nine == Col(Balance, <<57>>)
Negative == Col(Balance, <<45, 53>>)
NoNumber == Col(Balance, <<120>>)
NoText == Col(<<255>>, <<53>>)

Change(event, rows) ==
  [Empty("RowChange") EXCEPT !.eventType = {event}, !.rowDatas = rows]
Image(before, after) ==
  [Empty("RowData") EXCEPT !.beforeColumns = before, !.afterColumns = after]

\* Updates of an account that are complete, that miss a value before or after
\* the change, or that hold a value or a text that is wrong; updates without a row
\* and with two, of different amounts; other changes.
RowChanges ==
  {Change(UPDATE, <<Image(<<Id, Five>>, after)>>) :
     after \in {<<Id, Nine>>, <<Id, Zero>>, <<Id>>, <<Nine>>, <<Id, NoNumber>>,
                <<Id, Nine, NoText>>}}
  \cup {Change(UPDATE, <<Image(before, <<Id, Nine>>)>>) : before \in {<<Id>>, <<Id, Negative>>}}
  \cup {Change(UPDATE, <<>>),
        Change(UPDATE, <<Image(<<Id, Nine>>, <<Id, Five>>), Image(<<Id, Five>>, <<Id, Zero>>)>>),
        Change(UPDATE, <<Image(<<Id>>, <<Id, Five>>), Image(<<Id, Five>>, <<Id, NoNumber>>)>>),
        Change(INSERT, <<Image(<<>>, <<Id, Five>>)>>),
        Change(DELETE, <<Image(<<Id, Five>>, <<>>)>>),
        [Empty("RowChange") EXCEPT !.sql = <<66>>, !.isDdl = {1}]}

\* Headers of the tables account and ACCOUNT, of another, and of no UTF-8.
Headers ==
  {[Empty("Header") EXCEPT !.tableName = t, !.executeTime = 300] :
     t \in {<<97>>, <<65>>, <<120>>, <<255>>}}

\* An entry as its producer builds it, and as it goes to the topic.
EntryOf(e) ==
  [Empty("Entry") EXCEPT !.header = e.header, !.entryType = e.entryType,
                         !.storeValue = Serialize("RowChange", e.change)]
EntryBytes(e) == Serialize("Entry", EntryOf(e))

\* What the topic may hold: entries of the type zero and of all others.
AllEntries ==
  [header : {{h} : h \in Headers}, entryType : {{0}, {1}, {ROWDATA}, {4}}, change : RowChanges]

\* What the topic starts with, and what follows.
FirstEntries == {e \in AllEntries : IsRow(e)}
NextEntries ==
  [header : {{h} : h \in {g \in Headers : g.tableName \in {<<97>>, <<255>>}}},
   entryType : {{ROWDATA}},
   change : {Change(UPDATE, <<Image(<<Id, Five>>, after)>>) :
               after \in {<<Id, Nine>>, <<Id, NoNumber>>}}]

\* The values field f of a message of type t may be set to, the storeValue apart.
Samples(t, f) ==
  LET d == Types[t].fields[f]
      zero == IF d.label \in {"plain", "repeated"} THEN {} ELSE {Default(d.kind)}
  IN  IF t = "Entry" /\ f = "header" THEN Headers
      ELSE IF t = "Entry" /\ f = "entryType" THEN {1, ROWDATA, 4}
      ELSE IF t = "Entry" /\ f = "storeValue" THEN {}
      ELSE IF t = "MsgResult" /\ f = "rc" THEN {<<79, 107>>, <<65>>}
      ELSE CASE d.kind = "varint" -> {1, 200} \cup zero
             [] d.kind = "bool" -> {1} \cup zero
             [] d.kind = "double" -> {<<0, 0, 0, 0, 0, 0, 240, 63>>} \cup zero
             [] d.kind = "string" -> {<<65>>, <<65, 0>>, <<255>>} \cup zero
             [] d.kind = "bytes" -> {<<0, 255>>}
             [] OTHER -> {Empty(d.kind), Full(d.kind)}
=============================================================================
