------------------------ MODULE BinlogConsumersProofs ------------------------
(***************************************************************************)
(* Proofs about BinlogConsumers: what the statistics of binlogdumpK count, *)
(* what the transactions of the Flink job are and what ends the job, for   *)
(* every set of entries that the classes of the readers read back          *)
(* (EntriesAssumption).                                                    *)
(*                                                                         *)
(* First what a step makes of one entry, in terms of the entry and not of  *)
(* its bytes (PrintedEntry, DeserializedEntry); then each property by the  *)
(* entries the consumer has behind it.                                     *)
(***************************************************************************)
EXTENDS BinlogConsumers, SequenceTheorems, FiniteSetTheorems, WellFoundedInduction, TLAPS

consumersVars == <<topic, printerVars, jobVars>>

-----------------------------------------------------------------------------
(* Names and columns *)

Above == {ss \in Nat \X Nat : ss[1] < ss[2]}

\* A set of numbers up to n that is not empty has a greatest one: the one that is
\* the least away from n.
LEMMA GreatestNat ==
  ASSUME NEW n \in Nat, NEW T, T \subseteq 1..n, T # {}
  PROVE  \E x \in T : \A y \in T : x >= y
<1> DEFINE D == {d \in Nat : n - d \in T}
<1>1. IsWellFoundedOn(Above, Nat)
  BY NatLessThanWellFounded DEF OpToRel, Above
<1>2. D \subseteq Nat /\ D # {}
  <2>1. PICK y \in T : TRUE
    OBVIOUS
  <2>2. n - y \in Nat /\ n - (n - y) = y
    BY <2>1
  <2> QED
    BY <2>1, <2>2
<1>3. PICK d \in D : \A c \in D : ~ (<<c, d>> \in Above)
  BY <1>1, <1>2, WFMin
<1>4. \A c \in D : ~ (c < d)
  BY <1>2, <1>3 DEF Above
<1>5. n - d \in T
  BY <1>3
<1>6. ASSUME NEW y \in T PROVE n - d >= y
  <2>1. n - y \in Nat /\ n - (n - y) = y
    OBVIOUS
  <2>2. n - y \in D
    BY <2>1
  <2>3. ~ (n - y < d)
    BY <1>4, <2>2
  <2> QED
    BY <2>1, <2>3
<1> QED
  BY <1>5, <1>6

LEMMA MaxOfColumns ==
  ASSUME NEW n \in Nat, NEW T, T \subseteq 1..n, T # {}
  PROVE  Max(T) \in T
BY GreatestNat DEF Max

LEMMA TextElements ==
  ASSUME NEW s, IsText(s)
  PROVE  /\ Len(s) \in Nat /\ \A i \in 1..Len(s) : s[i] \in 0..255
         /\ Len(s) = 1 => s = <<s[1]>>
<1>1. s \in Seq(0..255)
  BY DEF IsText
<1>2. Len(s) \in Nat
  BY <1>1, LenProperties
<1>3. \A i \in 1..Len(s) : s[i] \in 0..255
  BY <1>1, ElementOfSeq
<1>4. ASSUME Len(s) = 1 PROVE s = <<s[1]>>
  BY <1>1, <1>4
<1> QED
  BY <1>2, <1>3, <1>4

\* equalsIgnoreCase: a text is one of the two spellings of a name of one letter.
LEMMA Spelled ==
  ASSUME NEW s, IsText(s), NEW name \in {Account, AccountId, Balance}
  PROVE  EqualsIgnoreCase(s, name) <=> s \in Spellings(name)
<1> DEFINE Lower(x) == [i \in 1..Len(x) |-> IF x[i] \in 65..90 THEN x[i] + 32 ELSE x[i]]
<1>1. EqualsIgnoreCase(s, name) <=> Lower(s) = Lower(name)
  BY DEF EqualsIgnoreCase
<1>2. PICK c \in {97, 98, 105} : name = <<c>>
  BY DEF Account, AccountId, Balance
<1>3. /\ Len(s) \in Nat /\ \A i \in 1..Len(s) : s[i] \in 0..255
      /\ Len(s) = 1 => s = <<s[1]>>
  BY TextElements
<1>4. Len(name) = 1 /\ name[1] = c
  BY <1>2
<1>5. Lower(name) = [i \in 1..1 |-> c]
  BY <1>2, <1>4
<1>6. Spellings(name) = {<<c>>, <<c - 32>>}
  BY <1>2, <1>4 DEF Spellings
<1>7. ASSUME Lower(s) = Lower(name) PROVE s \in Spellings(name)
  <2>1. 1..Len(s) = 1..1
    <3>1. DOMAIN Lower(s) = 1..Len(s)
      OBVIOUS
    <3>2. DOMAIN [i \in 1..1 |-> c] = 1..1
      OBVIOUS
    <3> QED
      BY <1>5, <1>7, <3>1, <3>2
  <2>2. Len(s) = 1
    <3>1. 1 \in 1..1
      OBVIOUS
    <3>2. 1 \in 1..Len(s)
      BY <2>1, <3>1
    <3>3. Len(s) >= 1 /\ Len(s) \in 1..Len(s)
      BY <1>3, <3>2
    <3>4. Len(s) \in 1..1
      BY <2>1, <3>3
    <3> QED
      BY <3>4
  <2>3. [i \in 1..1 |-> c][1] = c
    OBVIOUS
  <2>4. (IF s[1] \in 65..90 THEN s[1] + 32 ELSE s[1]) = c
    <3>1. Lower(s)[1] = c
      BY ONLY <1>5, <1>7, <2>3
    <3>2. Lower(s)[1] = IF s[1] \in 65..90 THEN s[1] + 32 ELSE s[1]
      BY <2>2
    <3> QED
      BY ONLY <3>1, <3>2
  <2>5. s[1] \in 0..255
    BY <1>3, <2>2
  <2>6. s[1] = c \/ s[1] = c - 32
    BY <2>4, <2>5
  <2>7. s = <<s[1]>>
    BY <1>3, <2>2
  <2> QED
    BY <1>6, <2>6, <2>7
<1>8. ASSUME s \in Spellings(name) PROVE Lower(s) = Lower(name)
  <2>1. PICK d \in {c, c - 32} : s = <<d>>
    BY <1>6, <1>8
  <2>2. Len(s) = 1 /\ s[1] = d
    BY <2>1
  <2>3. (IF d \in 65..90 THEN d + 32 ELSE d) = c
    BY <1>2
  <2>4. Lower(s) = [i \in 1..1 |-> c]
    BY <2>2, <2>3
  <2> QED
    BY <1>5, <2>4
<1> QED
  BY <1>1, <1>7, <1>8

\* An image of a row: its names are texts.
IsImage(columns) ==
  Len(columns) \in Nat /\ \A i \in 1..Len(columns) : IsText(columns[i].name)

\* The columns that the loop converts are those with the name.
LEMMA NamedColumns ==
  ASSUME NEW columns, IsImage(columns), NEW name \in {AccountId, Balance}
  PROVE  ColumnsNamed(columns, name) =
           {i \in 1..Len(columns) : columns[i].name \in Spellings(name)}
<1>1. \A i \in 1..Len(columns) :
        EqualsIgnoreCase(columns[i].name, name) <=> columns[i].name \in Spellings(name)
  BY Spelled DEF IsImage
<1> QED
  BY <1>1 DEF ColumnsNamed

\* If a column has the name, or the number is not the default, then it is that of a
\* column.
LEMMA NumberOfColumn ==
  ASSUME NEW columns, IsImage(columns), NEW name \in {AccountId, Balance}, NEW default,
         ValuesOf(columns, name) # {} \/ LastNumber(columns, name, default) # default
  PROVE  \E v \in ValuesOf(columns, name) : LastNumber(columns, name, default) = Number(v)
<1> DEFINE named == ColumnsNamed(columns, name)
<1>1. named = {i \in 1..Len(columns) : columns[i].name \in Spellings(name)}
  BY NamedColumns
<1>2. named # {} /\ LastNumber(columns, name, default) = Number(columns[Max(named)].value)
  BY <1>1 DEF LastNumber, ValuesOf
<1>3. Max(named) \in named
  BY <1>1, <1>2, MaxOfColumns DEF IsImage
<1>4. columns[Max(named)].value \in ValuesOf(columns, name)
  BY <1>1, <1>3 DEF ValuesOf
<1> QED
  BY <1>2, <1>4

\* No conversion throws if every value of the two columns is a number.
LEMMA ReadableValues ==
  ASSUME NEW columns, IsImage(columns)
  PROVE  RowReadable(columns) <=>
           \A name \in {AccountId, Balance} : \A v \in ValuesOf(columns, name) : IsNumber(v)
<1>1. ColumnsNamed(columns, AccountId) =
        {i \in 1..Len(columns) : columns[i].name \in Spellings(AccountId)}
  BY NamedColumns
<1>2. ColumnsNamed(columns, Balance) =
        {i \in 1..Len(columns) : columns[i].name \in Spellings(Balance)}
  BY NamedColumns
<1> QED
  BY <1>1, <1>2 DEF RowReadable, ValuesOf

-----------------------------------------------------------------------------
(* A step, by the entry it is about *)

\* PrintSql counts the rows whose header can be read, by the kind they have.
LEMMA PrintedEntry ==
  ASSUME NEW e \in Entries, PrintSql(BytesOf(e))
  PROVE  IF IsRow(e) /\ TextOk("Header", HeaderOf(e))
         THEN CountRow(EventTypeOf(e.change)) ELSE UNCHANGED gbStat
<1> DEFINE read == Parse("Entry", BytesOf(e))
           row == Parse("RowChange", read.msg.storeValue)
<1>1. /\ BytesOf(e) # <<>> /\ EntryReadsBack(e)
      /\ IsRow(e) /\ TextOk("Header", HeaderOf(e)) => ChangeReadsBack(e)
  BY EntriesAssumption
<1>2. /\ read.ok = TextOk("Header", HeaderOf(e))
      /\ IF read.ok THEN read.msg.header = e.header /\ read.msg.entryType = e.entryType
         ELSE ~IsRow(read.msg)
  BY <1>1 DEF EntryReadsBack
<1>3. IF IsRow(read.msg) THEN CountRow(EventTypeOf(row.msg)) ELSE UNCHANGED gbStat
  BY <1>1 DEF PrintSql, IsRow
<1>4. IsRow(e) /\ TextOk("Header", HeaderOf(e)) => EventTypeOf(row.msg) = EventTypeOf(e.change)
  BY <1>1 DEF ChangeReadsBack
<1> HIDE DEF read, row
<1>5. IsRow(read.msg) <=> IsRow(e) /\ TextOk("Header", HeaderOf(e))
  BY <1>2 DEF IsRow, EntryTypeOf
<1> QED
  BY <1>3, <1>4, <1>5

\* The row that the job looks at.
FirstRow(e) == e.change.rowDatas[1]

\* A change has rows if it has a first one.
LEMMA FirstOfRows ==
  ASSUME NEW e \in Entries
  PROVE  e.change.rowDatas # <<>> <=> 1 \in RowsOf(e)
<1> DEFINE rows == e.change.rowDatas
<1>1. rows \in Seq(Range(rows))
  BY EntriesAssumption
<1>2. Len(rows) \in Nat /\ (Len(rows) = 0 <=> rows = <<>>)
  BY <1>1, LenProperties, EmptySeq
<1> HIDE DEF rows
<1>3. Len(rows) # 0 <=> 1 \in 1..Len(rows)
  BY <1>2
<1> QED
  BY <1>2, <1>3 DEF RowsOf, rows

\* The two images of the first row.
LEMMA ImagesOfFirst ==
  ASSUME NEW e \in Entries, e.change.rowDatas # <<>>
  PROVE  /\ ImagesOf(e.change) = {FirstRow(e).beforeColumns, FirstRow(e).afterColumns}
         /\ IsImage(FirstRow(e).beforeColumns) /\ IsImage(FirstRow(e).afterColumns)
<1>1. ImagesOf(e.change) = {FirstRow(e).beforeColumns, FirstRow(e).afterColumns}
  BY DEF ImagesOf, FirstRow
<1>2. \A columns \in ImagesOf(e.change) : IsImage(columns)
  BY EntriesAssumption DEF IsImage
<1> QED
  BY <1>1, <1>2

\* A number that the loop has left and that is not below zero is one of the column.
LEMMA NumberOfImage ==
  ASSUME NEW columns, IsImage(columns), RowReadable(columns),
         NEW name \in {AccountId, Balance}, ~(LastNumber(columns, name, -1) < 0)
  PROVE  LastNumber(columns, name, -1) \in NumbersOf(columns, name)
<1>1. LastNumber(columns, name, -1) # -1
  OBVIOUS
<1>2. PICK v \in ValuesOf(columns, name) : LastNumber(columns, name, -1) = Number(v)
  BY <1>1, NumberOfColumn
<1>3. IsNumber(v)
  BY <1>2, ReadableValues
<1> QED
  BY <1>2, <1>3 DEF NumbersOf

\* The first row gives an exception if a value of it is no number; else null, if it is
\* not complete, or a transaction that shows it.
LEMMA UpdateRead ==
  ASSUME NEW e \in Entries, IsUpdate(e), e.change.rowDatas # <<>>,
         RowData2Transaction(FirstRow(e), HeaderOf(e).executeTime)
  PROVE  LET Wrong == \E columns \in ImagesOf(e.change), name \in {AccountId, Balance} :
                        \E v \in ValuesOf(columns, name) : ~IsNumber(v)
         IN  \/ Wrong /\ Exception
             \/ ~Wrong /\ ~Complete(e, 1) /\ Null
             \/ /\ ~Wrong /\ UNCHANGED jobRuns
                /\ \E t : IsChangeIn(t, e, 1) /\ transactions' = Append(transactions, t)
<1> DEFINE Wrong == \E columns \in ImagesOf(e.change), name \in {AccountId, Balance} :
                      \E v \in ValuesOf(columns, name) : ~IsNumber(v)
           before == FirstRow(e).beforeColumns
           after == FirstRow(e).afterColumns
           id == LastNumber(after, AccountId, -1)
           old == LastNumber(before, Balance, -1)
           new == LastNumber(after, Balance, -1)
           time == HeaderOf(e).executeTime
           t == [accountId |-> id, timestamp |-> time,
                 amount |-> IF new > old THEN new - old ELSE old - new]
<1>1. ImagesOf(e.change) = {before, after} /\ IsImage(before) /\ IsImage(after)
  BY ImagesOfFirst
<1>2. Wrong <=> ~RowReadable(before) \/ ~RowReadable(after)
  BY <1>1, ReadableValues
<1>3. /\ ReadRow(before).balance = old
      /\ ReadRow(after).balance = new /\ ReadRow(after).accountId = id
  BY DEF ReadRow, MyRow
<1> HIDE DEF Wrong, before, after, id, old, new, time
<1>4. IF Wrong THEN Exception
      ELSE IF id < 0 \/ new < 0 \/ old < 0 THEN Null
      ELSE transactions' = Append(transactions, t) /\ UNCHANGED jobRuns
  BY <1>2, <1>3 DEF RowData2Transaction, before, after, time
<1>5. ASSUME ~Wrong, ~(id < 0 \/ new < 0 \/ old < 0)
      PROVE  IsChangeIn(t, e, 1)
  <2>1. id \in NumbersOf(after, AccountId)
    BY <1>1, <1>2, <1>5, NumberOfImage DEF id
  <2>2. old \in NumbersOf(before, Balance)
    BY <1>1, <1>2, <1>5, NumberOfImage DEF old
  <2>3. new \in NumbersOf(after, Balance)
    BY <1>1, <1>2, <1>5, NumberOfImage DEF new
  <2>4. t.accountId = id /\ t.timestamp = time /\ t.amount \in {new - old, old - new}
    OBVIOUS
  <2>5. 1 \in RowsOf(e)
    BY FirstOfRows
  <2> HIDE DEF t
  <2>6. /\ t.accountId \in NumbersOf(FirstRow(e).afterColumns, AccountId)
        /\ \E o \in NumbersOf(FirstRow(e).beforeColumns, Balance),
              n \in NumbersOf(FirstRow(e).afterColumns, Balance) : t.amount \in {n - o, o - n}
    BY <2>1, <2>2, <2>3, <2>4 DEF before, after
  <2> QED
    BY <2>4, <2>5, <2>6 DEF IsChangeIn, FirstRow, time
<1>6. ASSUME Complete(e, 1)
      PROVE  ~(id < 0 \/ new < 0 \/ old < 0)
  <2>1. /\ ValuesOf(after, AccountId) # {} /\ \A v \in ValuesOf(after, AccountId) : ~(Number(v) < 0)
        /\ ValuesOf(after, Balance) # {} /\ \A v \in ValuesOf(after, Balance) : ~(Number(v) < 0)
        /\ ValuesOf(before, Balance) # {} /\ \A v \in ValuesOf(before, Balance) : ~(Number(v) < 0)
    BY <1>6 DEF Complete, FirstRow, before, after
  <2>2. ~(id < 0)
    BY <1>1, <2>1, NumberOfColumn DEF id
  <2>3. ~(new < 0)
    BY <1>1, <2>1, NumberOfColumn DEF new
  <2>4. ~(old < 0)
    BY <1>1, <2>1, NumberOfColumn DEF old
  <2> QED
    BY <2>2, <2>3, <2>4
<1> HIDE DEF t
<1> QED
  BY <1>4, <1>5, <1>6 DEF Wrong

\* deserialize: an exception for a bad entry, else null, if it is no update with a
\* complete first row, or a transaction that shows that row.
LEMMA DeserializedEntry ==
  ASSUME NEW e \in Entries, Deserialize(BytesOf(e))
  PROVE  \/ Bad(e) /\ Exception
         \/ ~Bad(e) /\ ~Complete(e, 1) /\ Null
         \/ /\ ~Bad(e) /\ UNCHANGED jobRuns
            /\ \E t : IsChangeIn(t, e, 1) /\ transactions' = Append(transactions, t)
<1> DEFINE read == Parse("Entry", BytesOf(e))
           row == Parse("RowChange", read.msg.storeValue)
           Wrong == \E columns \in ImagesOf(e.change), name \in {AccountId, Balance} :
                      \E v \in ValuesOf(columns, name) : ~IsNumber(v)
<1>1. /\ BytesOf(e) # <<>> /\ EntryReadsBack(e)
      /\ IsRow(e) /\ TextOk("Header", HeaderOf(e)) => ChangeReadsBack(e)
      /\ IsText(HeaderOf(e).tableName)
  BY EntriesAssumption
<1>2. /\ read.ok = TextOk("Header", HeaderOf(e))
      /\ read.ok => read.msg.header = e.header /\ read.msg.entryType = e.entryType
  BY <1>1 DEF EntryReadsBack
<1>3. read.ok => HeaderOf(read.msg) = HeaderOf(e) /\ (IsRow(read.msg) <=> IsRow(e))
  BY <1>2 DEF HeaderOf, IsRow, EntryTypeOf
<1>4. IsRow(e) /\ TextOk("Header", HeaderOf(e)) =>
        /\ row.ok = TextOk("RowChange", e.change)
        /\ row.ok => row.msg = e.change
  BY <1>1 DEF ChangeReadsBack
<1>5. EqualsIgnoreCase(HeaderOf(e).tableName, Account) <=> IsAccount(e)
  BY <1>1, Spelled DEF IsAccount
<1>6. Bad(e) <=>
        \/ ~TextOk("Header", HeaderOf(e))
        \/ IsRow(e) /\ IsAccount(e) /\ ~TextOk("RowChange", e.change)
        \/ IsUpdate(e) /\ Wrong
  BY DEF Bad
<1>7. IF ~read.ok THEN Exception
      ELSE IF ~IsRow(read.msg) THEN Null
      ELSE IF ~EqualsIgnoreCase(HeaderOf(read.msg).tableName, Account) THEN Null
      ELSE IF ~row.ok THEN Exception
      ELSE IF EventTypeOf(row.msg) # UPDATE THEN Null
      ELSE IF row.msg.rowDatas = <<>> THEN Null
      ELSE RowData2Transaction(row.msg.rowDatas[1], HeaderOf(read.msg).executeTime)
  BY <1>1 DEF Deserialize, IsRow
<1> HIDE DEF read, row, Wrong
<1>8. CASE ~TextOk("Header", HeaderOf(e))
  BY <1>2, <1>6, <1>7, <1>8
<1>9. CASE TextOk("Header", HeaderOf(e)) /\ ~(IsRow(e) /\ IsAccount(e))
  <2>1. Null
    BY <1>2, <1>3, <1>5, <1>7, <1>9
  <2>2. ~Bad(e) /\ ~Complete(e, 1)
    BY <1>6, <1>9 DEF IsUpdate, Complete
  <2> QED
    BY <2>1, <2>2
<1>10. CASE /\ TextOk("Header", HeaderOf(e)) /\ IsRow(e) /\ IsAccount(e)
            /\ ~TextOk("RowChange", e.change)
  <2>1. Exception
    BY <1>2, <1>3, <1>4, <1>5, <1>7, <1>10
  <2>2. Bad(e)
    BY <1>6, <1>10
  <2> QED
    BY <2>1, <2>2
<1>11. CASE /\ TextOk("Header", HeaderOf(e)) /\ IsRow(e) /\ IsAccount(e)
            /\ TextOk("RowChange", e.change)
  <2>1. IF EventTypeOf(e.change) # UPDATE THEN Null
        ELSE IF e.change.rowDatas = <<>> THEN Null
        ELSE RowData2Transaction(FirstRow(e), HeaderOf(e).executeTime)
    BY <1>2, <1>3, <1>4, <1>5, <1>7, <1>11 DEF FirstRow
  <2>2. Bad(e) <=> IsUpdate(e) /\ Wrong
    BY <1>6, <1>11
  <2>3. IsUpdate(e) <=> EventTypeOf(e.change) = UPDATE
    BY <1>11 DEF IsUpdate
  <2>4. CASE ~IsUpdate(e)
    BY <2>1, <2>2, <2>3, <2>4 DEF Complete
  <2>6. CASE IsUpdate(e) /\ e.change.rowDatas = <<>>
    <3>1. Null
      BY <2>1, <2>3, <2>6
    <3>2. ~Wrong
      BY <2>6 DEF Wrong, ImagesOf
    <3>3. ~Complete(e, 1)
      BY <2>6, FirstOfRows DEF Complete
    <3> QED
      BY <2>2, <3>1, <3>2, <3>3
  <2>5. CASE IsUpdate(e) /\ e.change.rowDatas # <<>>
    <3>1. RowData2Transaction(FirstRow(e), HeaderOf(e).executeTime)
      BY <2>1, <2>3, <2>5
    <3>2. \/ Wrong /\ Exception
          \/ ~Wrong /\ ~Complete(e, 1) /\ Null
          \/ /\ ~Wrong /\ UNCHANGED jobRuns
             /\ \E t : IsChangeIn(t, e, 1) /\ transactions' = Append(transactions, t)
      BY <2>5, <3>1, UpdateRead DEF Wrong
    <3> QED
      BY <2>2, <2>5, <3>2
  <2> QED
    BY <2>4, <2>5, <2>6
<1> QED
  BY <1>8, <1>9, <1>10, <1>11

-----------------------------------------------------------------------------
(* The types *)

\* The types, and the transactions are a sequence, of whatever it is.
ConsumersInv == ConsumersTypeOK /\ \E S : transactions \in Seq(S)

\* One more element.
LEMMA Appended ==
  ASSUME NEW S, NEW s \in Seq(S), NEW x
  PROVE  /\ Append(s, x) \in Seq(S \cup {x}) /\ Len(s) \in Nat
         /\ Len(Append(s, x)) = Len(s) + 1 /\ Append(s, x)[Len(s) + 1] = x
         /\ \A i \in 1..Len(s) : Append(s, x)[i] = s[i]
<1>1. s \in Seq(S \cup {x})
  BY SeqMonotonic
<1> QED
  BY <1>1, AppendProperties

LEMMA InitTypes == ConsumersInit => ConsumersInv
<1> SUFFICES ASSUME ConsumersInit PROVE ConsumersInv
  OBVIOUS
<1>1. /\ topic \in Seq(Entries) /\ Len(topic) = 0
      /\ transactions \in Seq({}) /\ Len(transactions) = 0
  BY EmptySeq DEF ConsumersInit
<1>2. gbStat \in [DOMAIN NoStatistics -> Nat]
  BY DEF ConsumersInit, NoStatistics
<1> QED
  BY <1>1, <1>2 DEF ConsumersInit, ConsumersInv, ConsumersTypeOK

LEMMA ProduceTypes ==
  ASSUME ConsumersInv, NEW e \in Entries, Produce(e)
  PROVE  ConsumersInv'
<1>1. /\ topic' = Append(topic, e) /\ printed' = printed /\ gbStat' = gbStat
      /\ processed' = processed /\ transactions' = transactions /\ jobRuns' = jobRuns
  BY DEF Produce, printerVars, jobVars
<1>2. topic \in Seq(Entries)
  BY DEF ConsumersInv, ConsumersTypeOK
<1>3. topic' \in Seq(Entries) /\ Len(topic) \in Nat /\ Len(topic') = Len(topic) + 1
  BY <1>1, <1>2, AppendProperties, LenProperties
<1> QED
  BY <1>1, <1>3 DEF ConsumersInv, ConsumersTypeOK

\* The counters are numbers and stay so.
LEMMA StatisticsTypes ==
  ASSUME gbStat \in [DOMAIN NoStatistics -> Nat], NEW event, CountRow(event)
  PROVE  gbStat' \in [DOMAIN NoStatistics -> Nat]
<1>1. DOMAIN NoStatistics = {"TotalRows", "InsertCnt", "UpdateCnt", "DeleteCnt"}
  BY DEF NoStatistics
<1>2. /\ gbStat.TotalRows \in Nat /\ gbStat.InsertCnt \in Nat
      /\ gbStat.UpdateCnt \in Nat /\ gbStat.DeleteCnt \in Nat
  BY <1>1
<1>3. \A n \in Nat : \A p \in BOOLEAN : n + (IF p THEN 1 ELSE 0) \in Nat
  OBVIOUS
<1>4. gbStat' = [TotalRows |-> gbStat.TotalRows + 1,
                 InsertCnt |-> gbStat.InsertCnt + (IF event = INSERT THEN 1 ELSE 0),
                 UpdateCnt |-> gbStat.UpdateCnt + (IF event = UPDATE THEN 1 ELSE 0),
                 DeleteCnt |-> gbStat.DeleteCnt + (IF event = DELETE THEN 1 ELSE 0)]
  BY DEF CountRow
<1> QED
  BY <1>1, <1>2, <1>3, <1>4

LEMMA PrintEntryTypes ==
  ASSUME ConsumersInv, PrintEntry
  PROVE  /\ ConsumersInv' /\ printed + 1 \in 1..Len(topic)
         /\ printed' = printed + 1 /\ topic' = topic /\ UNCHANGED jobVars
         /\ topic[printed + 1] \in Entries /\ PrintSql(BytesOf(topic[printed + 1]))
<1>1. /\ printed < Len(topic) /\ PrintSql(BytesOf(topic[printed + 1]))
      /\ printed' = printed + 1 /\ topic' = topic /\ processed' = processed
      /\ transactions' = transactions /\ jobRuns' = jobRuns
  BY DEF PrintEntry, jobVars
<1>2. topic \in Seq(Entries) /\ printed \in 0..Len(topic) /\ Len(topic) \in Nat
  BY LenProperties DEF ConsumersInv, ConsumersTypeOK
<1>3. printed + 1 \in 1..Len(topic)
  BY <1>1, <1>2
<1>4. topic[printed + 1] \in Entries
  BY <1>2, <1>3, ElementOfSeq
<1>5. \/ gbStat' = gbStat
      \/ CountRow(EventTypeOf(topic[printed + 1].change))
  BY <1>1, <1>4, PrintedEntry
<1>6. gbStat' \in [DOMAIN NoStatistics -> Nat]
  BY <1>5, StatisticsTypes DEF ConsumersInv, ConsumersTypeOK
<1> QED
  BY <1>1, <1>2, <1>3, <1>4, <1>6 DEF ConsumersInv, ConsumersTypeOK, jobVars

LEMMA ProcessEntryTypes ==
  ASSUME ConsumersInv, ProcessEntry
  PROVE  /\ ConsumersInv' /\ processed + 1 \in 1..Len(topic) /\ jobRuns = TRUE
         /\ processed' = processed + 1 /\ topic' = topic /\ UNCHANGED printerVars
         /\ topic[processed + 1] \in Entries /\ Deserialize(BytesOf(topic[processed + 1]))
<1>1. /\ processed < Len(topic) /\ Deserialize(BytesOf(topic[processed + 1]))
      /\ processed' = processed + 1 /\ topic' = topic /\ printed' = printed
      /\ gbStat' = gbStat /\ jobRuns
  BY DEF ProcessEntry, printerVars
<1>2. topic \in Seq(Entries) /\ processed \in 0..Len(topic) /\ Len(topic) \in Nat
  BY LenProperties DEF ConsumersInv, ConsumersTypeOK
<1>3. processed + 1 \in 1..Len(topic)
  BY <1>1, <1>2
<1>4. topic[processed + 1] \in Entries
  BY <1>2, <1>3, ElementOfSeq
<1>5. jobRuns = TRUE
  BY <1>1 DEF ConsumersInv, ConsumersTypeOK
<1>6. /\ transactions' = transactions \/ \E t : transactions' = Append(transactions, t)
      /\ jobRuns' = jobRuns \/ jobRuns' = FALSE
  BY <1>1, <1>4, DeserializedEntry DEF Null, Exception
<1>7. PICK S : transactions \in Seq(S)
  BY DEF ConsumersInv
<1>8. Len(transactions) \in 0..processed
  BY DEF ConsumersInv, ConsumersTypeOK
<1>9. Len(transactions') \in 0..processed' /\ \E T : transactions' \in Seq(T)
  <2>1. CASE transactions' = transactions
    BY <1>1, <1>2, <1>7, <1>8, <2>1
  <2>2. ASSUME NEW t, transactions' = Append(transactions, t)
        PROVE  Len(transactions') \in 0..processed' /\ \E T : transactions' \in Seq(T)
    <3>1. /\ transactions' \in Seq(S \cup {t}) /\ Len(transactions) \in Nat
          /\ Len(transactions') = Len(transactions) + 1
      BY <1>7, <2>2, Appended
    <3>2. Len(transactions') \in 0..processed'
      BY <1>1, <1>2, <1>8, <3>1
    <3> QED
      BY <3>1, <3>2
  <2> QED
    BY <1>6, <2>1, <2>2
<1>10. ConsumersTypeOK'
  <2>1. printed \in 0..Len(topic) /\ gbStat \in [DOMAIN NoStatistics -> Nat]
    BY DEF ConsumersInv, ConsumersTypeOK
  <2>2. jobRuns' \in BOOLEAN
    BY <1>5, <1>6
  <2>3. processed' \in 0..Len(topic)
    BY <1>1, <1>2
  <2> QED
    BY <1>1, <1>2, <1>9, <2>1, <2>2, <2>3 DEF ConsumersTypeOK
<1> QED
  BY <1>1, <1>3, <1>4, <1>5, <1>9, <1>10 DEF ConsumersInv, printerVars

LEMMA NextTypes == ConsumersInv /\ [ConsumersNext]_consumersVars => ConsumersInv'
<1> SUFFICES ASSUME ConsumersInv, [ConsumersNext]_consumersVars PROVE ConsumersInv'
  OBVIOUS
<1>1. ASSUME NEW e \in Entries, Produce(e) PROVE ConsumersInv'
  BY <1>1, ProduceTypes
<1>2. CASE PrintEntry
  BY <1>2, PrintEntryTypes
<1>3. CASE ProcessEntry
  BY <1>3, ProcessEntryTypes
<1>4. CASE UNCHANGED consumersVars
  BY <1>4 DEF consumersVars, printerVars, jobVars, ConsumersInv, ConsumersTypeOK
<1> QED
  BY <1>1, <1>2, <1>3, <1>4 DEF ConsumersNext

THEOREM ConsumersInvariant == ConsumersSpec => []ConsumersInv
BY InitTypes, NextTypes, PTL DEF ConsumersSpec, consumersVars

\* No consumer is ahead of the topic, and the job makes at most one transaction of
\* a message.
THEOREM ConsumersTypeCorrect == ConsumersSpec => []ConsumersTypeOK
<1>1. ConsumersInv => ConsumersTypeOK
  BY DEF ConsumersInv
<1> QED
  BY <1>1, ConsumersInvariant, PTL

\* What is in the topic stays where it is.
LEMMA TopicKept ==
  ASSUME ConsumersInv, [ConsumersNext]_consumersVars
  PROVE  /\ \A i \in 1..printed : topic'[i] = topic[i]
         /\ \A i \in 1..processed : topic'[i] = topic[i]
<1>1. /\ topic \in Seq(Entries) /\ Len(topic) \in Nat
      /\ printed \in 0..Len(topic) /\ processed \in 0..Len(topic)
  BY LenProperties DEF ConsumersInv, ConsumersTypeOK
<1>2. ASSUME NEW e \in Entries, Produce(e)
      PROVE  \A i \in 1..Len(topic) : topic'[i] = topic[i]
  BY <1>1, <1>2, AppendProperties DEF Produce
<1>3. PrintEntry => topic' = topic
  BY PrintEntryTypes
<1>4. ProcessEntry => topic' = topic
  BY ProcessEntryTypes
<1>5. UNCHANGED consumersVars => topic' = topic
  BY DEF consumersVars
<1>6. (\E e \in Entries : Produce(e)) \/ topic' = topic
  BY <1>3, <1>4, <1>5 DEF ConsumersNext
<1>7. \A i \in 1..Len(topic) : topic'[i] = topic[i]
  BY <1>2, <1>6
<1>8. 1..printed \subseteq 1..Len(topic) /\ 1..processed \subseteq 1..Len(topic)
  BY <1>1
<1> QED
  BY <1>7, <1>8

-----------------------------------------------------------------------------
(* The statistics *)

IsCounted(e) == IsRow(e) /\ TextOk("Header", HeaderOf(e))

\* A number above a set of numbers is one more element of it.
LEMMA OneMore ==
  ASSUME NEW n \in Nat, NEW T, T \subseteq 1..n
  PROVE  Cardinality(T) \in Nat /\ Cardinality(T \cup {n + 1}) = Cardinality(T) + 1
<1>1. IsFiniteSet(1..n)
  BY FS_Interval
<1>2. IsFiniteSet(T)
  BY <1>1, FS_Subset
<1>3. n + 1 \notin T
  OBVIOUS
<1> QED
  BY <1>2, <1>3, FS_AddElement, FS_CardinalityType

\* PrintEntry adds the entry to the rows it counts, and to those of its kind.
LEMMA RowsPrintedStep ==
  ASSUME ConsumersInv, PrintEntry
  PROVE  LET e == topic[printed + 1]
         IN  /\ RowsPrinted' =
                  IF IsCounted(e) THEN RowsPrinted \cup {printed + 1} ELSE RowsPrinted
             /\ \A event : RowsPrintedOf(event)' =
                  IF IsCounted(e) /\ EventTypeOf(e.change) = event
                  THEN RowsPrintedOf(event) \cup {printed + 1} ELSE RowsPrintedOf(event)
<1> DEFINE e == topic[printed + 1]
<1>1. printed' = printed + 1 /\ topic' = topic
  BY PrintEntryTypes
<1>2. printed \in Nat
  BY LenProperties DEF ConsumersInv, ConsumersTypeOK
<1>3. 1..printed + 1 = (1..printed) \cup {printed + 1}
  BY <1>2
<1>4. RowsPrinted = {i \in 1..printed : IsCounted(topic[i])}
  BY DEF RowsPrinted, IsCounted
<1>5. RowsPrinted' = {i \in 1..printed + 1 : IsCounted(topic[i])}
  BY <1>1 DEF RowsPrinted, IsCounted
<1>6. RowsPrinted' = IF IsCounted(e) THEN RowsPrinted \cup {printed + 1} ELSE RowsPrinted
  BY <1>3, <1>4, <1>5
<1>7. ASSUME NEW event
      PROVE  RowsPrintedOf(event)' =
               IF IsCounted(e) /\ EventTypeOf(e.change) = event
               THEN RowsPrintedOf(event) \cup {printed + 1} ELSE RowsPrintedOf(event)
  <2>1. RowsPrintedOf(event)' = {i \in RowsPrinted' : EventTypeOf(topic[i].change) = event}
    BY <1>1 DEF RowsPrintedOf
  <2>2. RowsPrintedOf(event) = {i \in RowsPrinted : EventTypeOf(topic[i].change) = event}
    BY DEF RowsPrintedOf
  <2> QED
    BY <1>6, <2>1, <2>2
<1> QED
  BY <1>6, <1>7

LEMMA RowsInPrinted ==
  ASSUME NEW event
  PROVE  RowsPrinted \subseteq 1..printed /\ RowsPrintedOf(event) \subseteq 1..printed
BY DEF RowsPrinted, RowsPrintedOf

\* One counter and the set that it counts: both grow, or none.
LEMMA CounterStep ==
  ASSUME NEW n \in Nat, NEW T, T \subseteq 1..n, NEW more \in BOOLEAN
  PROVE  Cardinality(IF more THEN T \cup {n + 1} ELSE T) =
           Cardinality(T) + (IF more THEN 1 ELSE 0)
<1>1. /\ Cardinality(T) \in Nat
      /\ Cardinality(T \cup {n + 1}) = Cardinality(T) + 1
  BY OneMore
<1>2. \/ more /\ (IF more THEN T \cup {n + 1} ELSE T) = T \cup {n + 1}
      \/ ~more /\ (IF more THEN T \cup {n + 1} ELSE T) = T
  OBVIOUS
<1>3. Cardinality(T) + 0 = Cardinality(T)
  BY <1>1
<1> QED
  BY <1>1, <1>2, <1>3

LEMMA PrintEntryStatistics ==
  ASSUME ConsumersInv, StatisticsMatch, PrintEntry
  PROVE  StatisticsMatch'
<1> DEFINE e == topic[printed + 1]
           event == EventTypeOf(e.change)
           Add(p) == IF p THEN 1 ELSE 0
           Of(k) == RowsPrintedOf(k)
<1>1. /\ RowsPrinted' = IF IsCounted(e) THEN RowsPrinted \cup {printed + 1} ELSE RowsPrinted
      /\ \A k : RowsPrintedOf(k)' =
                  IF IsCounted(e) /\ event = k
                  THEN RowsPrintedOf(k) \cup {printed + 1} ELSE RowsPrintedOf(k)
  BY RowsPrintedStep
<1>2. printed \in Nat
  BY LenProperties DEF ConsumersInv, ConsumersTypeOK
<1>3. IF IsCounted(e) THEN CountRow(event) ELSE UNCHANGED gbStat
  BY PrintEntryTypes, PrintedEntry DEF IsCounted
<1> HIDE DEF e, event
<1>4. Cardinality(RowsPrinted)' = Cardinality(RowsPrinted) + Add(IsCounted(e))
  <2>1. IsCounted(e) \in BOOLEAN
    BY DEF IsCounted, IsRow
  <2> QED
    BY <1>1, <1>2, <2>1, RowsInPrinted, CounterStep
<1>5. ASSUME NEW k
      PROVE  Cardinality(RowsPrintedOf(k))' =
               Cardinality(RowsPrintedOf(k)) + Add(IsCounted(e) /\ event = k)
  <2> DEFINE more == IsCounted(e) /\ event = k
             added == IF more THEN RowsPrintedOf(k) \cup {printed + 1} ELSE RowsPrintedOf(k)
  <2>1. RowsPrintedOf(k)' = added
    BY <1>1
  <2>2. more \in BOOLEAN
    OBVIOUS
  <2>3. RowsPrintedOf(k) \subseteq 1..printed
    BY RowsInPrinted
  <2> HIDE DEF more
  <2>4. Cardinality(added) = Cardinality(RowsPrintedOf(k)) + Add(more)
    BY <1>2, <2>2, <2>3, CounterStep
  <2> QED
    BY <2>1, <2>4 DEF more
<1>6. /\ gbStat.TotalRows \in Nat /\ gbStat.InsertCnt \in Nat
      /\ gbStat.UpdateCnt \in Nat /\ gbStat.DeleteCnt \in Nat
  BY DEF ConsumersInv, ConsumersTypeOK, NoStatistics
<1>7. /\ gbStat'.TotalRows = gbStat.TotalRows + Add(IsCounted(e))
      /\ gbStat'.InsertCnt = gbStat.InsertCnt + Add(IsCounted(e) /\ event = INSERT)
      /\ gbStat'.UpdateCnt = gbStat.UpdateCnt + Add(IsCounted(e) /\ event = UPDATE)
      /\ gbStat'.DeleteCnt = gbStat.DeleteCnt + Add(IsCounted(e) /\ event = DELETE)
  <2>1. CASE IsCounted(e)
    BY <1>3, <2>1 DEF CountRow
  <2>2. CASE ~IsCounted(e)
    BY <1>3, <1>6, <2>2
  <2> QED
    BY <2>1, <2>2
<1> HIDE DEF Add
<1> QED
  BY <1>4, <1>5, <1>7 DEF StatisticsMatch

LEMMA NextStatistics ==
  ConsumersInv /\ StatisticsMatch /\ [ConsumersNext]_consumersVars => StatisticsMatch'
<1> SUFFICES ASSUME ConsumersInv, StatisticsMatch, [ConsumersNext]_consumersVars
             PROVE  StatisticsMatch'
  OBVIOUS
<1>1. CASE PrintEntry
  BY <1>1, PrintEntryStatistics
<1>2. CASE UNCHANGED printerVars
  <2>1. printed' = printed /\ gbStat' = gbStat /\ \A i \in 1..printed : topic'[i] = topic[i]
    BY <1>2, TopicKept DEF printerVars
  <2>2. RowsPrinted' = RowsPrinted
    BY <2>1 DEF RowsPrinted
  <2>3. \A k : RowsPrintedOf(k)' = RowsPrintedOf(k)
    BY <2>1, <2>2, RowsInPrinted DEF RowsPrintedOf
  <2> QED
    BY <2>1, <2>2, <2>3 DEF StatisticsMatch
<1>3. (\E e \in Entries : Produce(e)) \/ UNCHANGED consumersVars => UNCHANGED printerVars
  BY DEF Produce, consumersVars, printerVars
<1>4. ProcessEntry => UNCHANGED printerVars
  BY DEF ProcessEntry
<1> QED
  BY <1>1, <1>2, <1>3, <1>4 DEF ConsumersNext

\* PrintSql: the statistics of the dump are the counts of what was printed, by
\* kind, however the entries follow each other.
THEOREM StatisticsCorrect == ConsumersSpec => []StatisticsMatch
<1>1. ConsumersInit => StatisticsMatch
  <2> SUFFICES ASSUME ConsumersInit PROVE StatisticsMatch
    OBVIOUS
  <2>1. printed = 0
    BY DEF ConsumersInit
  <2>2. RowsPrinted = {} /\ \A k : RowsPrintedOf(k) = {}
    BY <2>1 DEF RowsPrinted, RowsPrintedOf
  <2> QED
    BY <2>2, FS_EmptySet DEF ConsumersInit, NoStatistics, StatisticsMatch
<1> QED
  BY <1>1, ConsumersInvariant, NextStatistics, PTL DEF ConsumersSpec, consumersVars

-----------------------------------------------------------------------------
(* The transactions *)

\* The job reads one more entry: the transaction it may give shows that entry, the
\* earlier ones keep the entry they show.
LEMMA ProcessEntryTransactions ==
  ASSUME ConsumersInv, TransactionsAreUpdates, ProcessEntry
  PROVE  TransactionsAreUpdates'
<1> DEFINE e == topic[processed + 1]
<1>1. processed' = processed + 1 /\ topic' = topic /\ e \in Entries /\ Deserialize(BytesOf(e))
  BY ProcessEntryTypes
<1>2. processed \in Nat
  BY LenProperties DEF ConsumersInv, ConsumersTypeOK
<1>3. PICK S : transactions \in Seq(S)
  BY DEF ConsumersInv
<1>4. \A i \in 1..processed : i \in 1..processed + 1
  BY <1>2
<1>5. processed + 1 \in 1..processed + 1
  BY <1>2
<1>6. \A k \in 1..Len(transactions) : \E i \in 1..processed + 1 : ShownIn(transactions[k], topic[i])
  BY <1>4 DEF TransactionsAreUpdates
<1>7. CASE transactions' = transactions
  <2>1. TransactionsAreUpdates' <=>
          \A k \in 1..Len(transactions) :
            \E i \in 1..processed + 1 : ShownIn(transactions[k], topic[i])
    BY <1>1, <1>7 DEF TransactionsAreUpdates
  <2> QED
    BY <1>6, <2>1
<1>8. ASSUME NEW t, IsChangeIn(t, e, 1), transactions' = Append(transactions, t)
      PROVE  TransactionsAreUpdates'
  <2>1. /\ Len(transactions) \in Nat /\ Len(transactions') = Len(transactions) + 1
        /\ transactions'[Len(transactions) + 1] = t
        /\ \A k \in 1..Len(transactions) : transactions'[k] = transactions[k]
    BY <1>3, <1>8, Appended
  <2>2. ASSUME NEW k \in 1..Len(transactions')
        PROVE  \E i \in 1..processed + 1 : ShownIn(transactions'[k], topic[i])
    <3>1. k \in 1..Len(transactions) \/ k = Len(transactions) + 1
      BY <2>1
    <3>2. CASE k \in 1..Len(transactions)
      BY <1>6, <2>1, <3>2
    <3>3. CASE k = Len(transactions) + 1
      BY <1>5, <1>8, <2>1, <3>3 DEF ShownIn, IsChangeIn
    <3> QED
      BY <3>1, <3>2, <3>3
  <2> QED
    BY <1>1, <2>2 DEF TransactionsAreUpdates
<1>9. \/ transactions' = transactions
      \/ \E t : IsChangeIn(t, e, 1) /\ transactions' = Append(transactions, t)
  BY <1>1, DeserializedEntry DEF Null, Exception
<1> QED
  BY <1>7, <1>8, <1>9

\* The job is idle: it has the transactions, and the entries behind it are in place.
LEMMA IdleJob ==
  ConsumersNext \/ UNCHANGED consumersVars => ProcessEntry \/ UNCHANGED jobVars
<1>1. (\E e \in Entries : Produce(e)) => UNCHANGED jobVars
  BY DEF Produce
<1>2. PrintEntry => UNCHANGED jobVars
  BY DEF PrintEntry
<1>3. UNCHANGED consumersVars => UNCHANGED jobVars
  BY DEF consumersVars, jobVars
<1> QED
  BY <1>1, <1>2, <1>3 DEF ConsumersNext

LEMMA NextTransactions ==
  ConsumersInv /\ TransactionsAreUpdates /\ [ConsumersNext]_consumersVars
    => TransactionsAreUpdates'
<1> SUFFICES ASSUME ConsumersInv, TransactionsAreUpdates, [ConsumersNext]_consumersVars
             PROVE  TransactionsAreUpdates'
  OBVIOUS
<1>1. CASE ProcessEntry
  BY <1>1, ProcessEntryTransactions
<1>2. CASE UNCHANGED jobVars
  <2>1. /\ processed' = processed /\ transactions' = transactions
        /\ \A i \in 1..processed : topic'[i] = topic[i]
    BY <1>2, TopicKept DEF jobVars
  <2> QED
    BY <2>1 DEF TransactionsAreUpdates
<1> QED
  BY <1>1, <1>2, IdleJob

\* BinlogTransactionSchema: whatever the topic holds, every transaction of the job
\* is the change of an account's balance, from values that are there and not below
\* zero, that a row of an entry behind the job shows.
THEOREM TransactionsCorrect == ConsumersSpec => []TransactionsAreUpdates
<1>1. ConsumersInit => TransactionsAreUpdates
  <2> SUFFICES ASSUME ConsumersInit PROVE TransactionsAreUpdates
    OBVIOUS
  <2>1. Len(transactions) = 0
    BY EmptySeq DEF ConsumersInit
  <2>2. 1..Len(transactions) = {}
    BY <2>1
  <2> QED
    BY <2>2 DEF TransactionsAreUpdates
<1> QED
  BY <1>1, ConsumersInvariant, NextTransactions, PTL DEF ConsumersSpec, consumersVars

-----------------------------------------------------------------------------
(* The first rows *)

\* The entries of the transactions, in the order of the topic: of the first n, those
\* with a complete first row are all there.
Sources(f, trans, entries, n) ==
  /\ f \in [1..Len(trans) -> 1..n]
  /\ \A k, l \in 1..Len(trans) : k < l => f[k] < f[l]
  /\ \A k \in 1..Len(trans) : IsChangeIn(trans[k], entries[f[k]], 1)
  /\ \A i \in 1..n : Complete(entries[i], 1) => \E k \in 1..Len(trans) : f[k] = i

LEMMA SourcesExist ==
  FirstRowsOnce <=> \E f : Sources(f, transactions, topic, processed)
BY DEF FirstRowsOnce, Sources

\* An entry without a complete first row that gives nothing keeps the sources.
LEMMA SourcesKept ==
  ASSUME NEW n \in Nat, NEW trans, NEW entries, NEW f, Sources(f, trans, entries, n),
         ~Complete(entries[n + 1], 1)
  PROVE  Sources(f, trans, entries, n + 1)
<1>1. 1..n + 1 = (1..n) \cup {n + 1}
  OBVIOUS
<1>2. f \in [1..Len(trans) -> 1..n + 1]
  BY <1>1 DEF Sources
<1>3. \A i \in 1..n + 1 : Complete(entries[i], 1) => \E k \in 1..Len(trans) : f[k] = i
  BY <1>1 DEF Sources
<1> QED
  BY <1>2, <1>3 DEF Sources

\* An entry that gives a transaction is its source, behind all earlier ones.
LEMMA SourcesGrow ==
  ASSUME NEW n \in Nat, NEW S, NEW trans \in Seq(S), NEW entries, NEW f,
         Sources(f, trans, entries, n), NEW t, IsChangeIn(t, entries[n + 1], 1)
  PROVE  \E g : Sources(g, Append(trans, t), entries, n + 1)
<1> DEFINE m == Len(trans)
           more == Append(trans, t)
           g == [k \in 1..m + 1 |-> IF k = m + 1 THEN n + 1 ELSE f[k]]
<1>1. m \in Nat /\ Len(more) = m + 1 /\ more[m + 1] = t /\ \A k \in 1..m : more[k] = trans[k]
  BY Appended
<1>2. \A k \in 1..m : f[k] \in 1..n
  BY DEF Sources
<1>3. 1..n + 1 = (1..n) \cup {n + 1}
  OBVIOUS
<1> HIDE DEF m, more
<1>4. 1..m + 1 = (1..m) \cup {m + 1} /\ \A k \in 1..m : k # m + 1
  BY <1>1
<1>5. g[m + 1] = n + 1 /\ \A k \in 1..m : g[k] = f[k]
  BY <1>4
<1>6. g \in [1..m + 1 -> 1..n + 1]
  BY <1>2, <1>3, <1>4
<1> HIDE DEF g
<1>7. ASSUME NEW k \in 1..m + 1, NEW l \in 1..m + 1, k < l PROVE g[k] < g[l]
  <2>1. k \in 1..m
    BY <1>1, <1>7
  <2>2. CASE l \in 1..m
    BY <1>5, <1>7, <2>1, <2>2 DEF Sources, m
  <2>3. CASE l = m + 1
    BY <1>2, <1>5, <2>1, <2>3
  <2> QED
    BY <1>4, <2>2, <2>3
<1>8. ASSUME NEW k \in 1..m + 1 PROVE IsChangeIn(more[k], entries[g[k]], 1)
  <2>1. CASE k \in 1..m
    BY <1>1, <1>5, <2>1 DEF Sources, m
  <2>2. CASE k = m + 1
    BY <1>1, <1>5, <2>2
  <2> QED
    BY <1>4, <2>1, <2>2
<1>9. ASSUME NEW i \in 1..n + 1, Complete(entries[i], 1) PROVE \E k \in 1..m + 1 : g[k] = i
  <2>1. CASE i \in 1..n
    <3>1. PICK k \in 1..m : f[k] = i
      BY <1>9, <2>1 DEF Sources, m
    <3> QED
      BY <1>4, <1>5, <3>1
  <2>2. CASE i = n + 1
    BY <1>4, <1>5, <2>2
  <2> QED
    BY <1>3, <2>1, <2>2
<1>10. Sources(g, more, entries, n + 1)
  BY <1>1, <1>6, <1>7, <1>8, <1>9 DEF Sources
<1> QED
  BY <1>10 DEF more

\* A step of the job that ends it reads a bad entry, whose first row is not complete.
LEMMA ProcessEntryUpdates ==
  ASSUME ConsumersInv, FirstRowsOnce, ProcessEntry
  PROVE  FirstRowsOnce'
<1> DEFINE e == topic[processed + 1]
<1>1. processed' = processed + 1 /\ topic' = topic /\ e \in Entries /\ Deserialize(BytesOf(e))
  BY ProcessEntryTypes
<1>2. processed \in Nat
  BY LenProperties DEF ConsumersInv, ConsumersTypeOK
<1>3. PICK S : transactions \in Seq(S)
  BY DEF ConsumersInv
<1>4. PICK f : Sources(f, transactions, topic, processed)
  BY SourcesExist
<1>5. \/ ~Complete(e, 1) /\ transactions' = transactions
      \/ \E t : IsChangeIn(t, e, 1) /\ transactions' = Append(transactions, t)
  BY <1>1, DeserializedEntry DEF Null, Exception, Complete
<1>6. \E g : Sources(g, transactions', topic, processed + 1)
  <2>1. CASE ~Complete(e, 1) /\ transactions' = transactions
    BY <1>2, <1>4, <2>1, SourcesKept
  <2>2. ASSUME NEW t, IsChangeIn(t, e, 1), transactions' = Append(transactions, t)
        PROVE  \E g : Sources(g, transactions', topic, processed + 1)
    BY <1>2, <1>3, <1>4, <2>2, SourcesGrow
  <2> QED
    BY <1>5, <2>1, <2>2
<1>7. FirstRowsOnce' <=> \E g : Sources(g, transactions', topic', processed')
  BY DEF FirstRowsOnce, Sources
<1> QED
  BY <1>1, <1>6, <1>7

LEMMA NextUpdates ==
  ConsumersInv /\ FirstRowsOnce /\ [ConsumersNext]_consumersVars => FirstRowsOnce'
<1> SUFFICES ASSUME ConsumersInv, FirstRowsOnce, [ConsumersNext]_consumersVars
             PROVE  FirstRowsOnce'
  OBVIOUS
<1>1. CASE ProcessEntry
  BY <1>1, ProcessEntryUpdates
<1>2. CASE UNCHANGED jobVars
  <2>1. /\ processed' = processed /\ transactions' = transactions
        /\ \A i \in 1..processed : topic'[i] = topic[i]
    BY <1>2, TopicKept DEF jobVars
  <2>2. PICK f : Sources(f, transactions, topic, processed)
    BY SourcesExist
  <2>3. \A k \in 1..Len(transactions) : f[k] \in 1..processed
    BY <2>2 DEF Sources
  <2>4. Sources(f, transactions, topic', processed)
    BY <2>1, <2>2, <2>3 DEF Sources
  <2>5. FirstRowsOnce' <=> \E g : Sources(g, transactions', topic', processed')
    BY DEF FirstRowsOnce, Sources
  <2> QED
    BY <2>1, <2>4, <2>5
<1> QED
  BY <1>1, <1>2, IdleJob

\* BinlogTransactionSchema: the first row of every update entry behind the job has
\* given one transaction if it is complete, the transactions come in the order of
\* their entries, and no further row of a change, getRowDatas(0) being the only one
\* that is read, has given any.
THEOREM FirstRowsGiven == ConsumersSpec => []FirstRowsOnce
<1>1. ConsumersInit => FirstRowsOnce
  <2> SUFFICES ASSUME ConsumersInit PROVE FirstRowsOnce
    OBVIOUS
  <2>1. Len(transactions) = 0 /\ processed = 0
    BY EmptySeq DEF ConsumersInit
  <2>2. 1..Len(transactions) = {} /\ 1..processed = {}
    BY <2>1
  <2>3. [k \in {} |-> 0] \in [{} -> {}]
    OBVIOUS
  <2>4. Sources([k \in {} |-> 0], transactions, topic, processed)
    BY <2>2, <2>3 DEF Sources
  <2> QED
    BY <2>4, SourcesExist
<1> QED
  BY <1>1, ConsumersInvariant, NextUpdates, PTL DEF ConsumersSpec, consumersVars

-----------------------------------------------------------------------------
(* The end of the job *)

\* The job reads one more entry: it ends exactly if that one is bad.
LEMMA ProcessEntryEnds ==
  ASSUME ConsumersInv, OnlyBadEntryEndsJob, ProcessEntry
  PROVE  OnlyBadEntryEndsJob'
<1> DEFINE e == topic[processed + 1]
<1>1. /\ processed' = processed + 1 /\ topic' = topic /\ jobRuns = TRUE
      /\ e \in Entries /\ Deserialize(BytesOf(e))
  BY ProcessEntryTypes
<1>2. processed \in Nat
  BY LenProperties DEF ConsumersInv, ConsumersTypeOK
<1>3. jobRuns' <=> ~Bad(e)
  BY <1>1, DeserializedEntry DEF Null, Exception
<1>4. \A i \in 1..processed : ~Bad(topic[i])
  BY <1>1 DEF OnlyBadEntryEndsJob
<1>5. 1..processed + 1 = (1..processed) \cup {processed + 1}
  BY <1>2
<1>6. OnlyBadEntryEndsJob' <=> (jobRuns' <=> \A i \in 1..processed + 1 : ~Bad(topic[i]))
  BY <1>1 DEF OnlyBadEntryEndsJob
<1> QED
  BY <1>3, <1>4, <1>5, <1>6

LEMMA NextEnds ==
  ConsumersInv /\ OnlyBadEntryEndsJob /\ [ConsumersNext]_consumersVars => OnlyBadEntryEndsJob'
<1> SUFFICES ASSUME ConsumersInv, OnlyBadEntryEndsJob, [ConsumersNext]_consumersVars
             PROVE  OnlyBadEntryEndsJob'
  OBVIOUS
<1>1. CASE ProcessEntry
  BY <1>1, ProcessEntryEnds
<1>2. CASE UNCHANGED jobVars
  <2>1. /\ processed' = processed /\ jobRuns' = jobRuns
        /\ \A i \in 1..processed : topic'[i] = topic[i]
    BY <1>2, TopicKept DEF jobVars
  <2> QED
    BY <2>1 DEF OnlyBadEntryEndsJob
<1> QED
  BY <1>1, <1>2, IdleJob

\* deserialize: the job runs exactly as long as it has read no bad entry.
THEOREM OnlyBadEntryEnds == ConsumersSpec => []OnlyBadEntryEndsJob
<1>1. ConsumersInit => OnlyBadEntryEndsJob
  <2> SUFFICES ASSUME ConsumersInit PROVE OnlyBadEntryEndsJob
    OBVIOUS
  <2>1. 1..processed = {} /\ jobRuns = TRUE
    BY DEF ConsumersInit
  <2> QED
    BY <2>1 DEF OnlyBadEntryEndsJob
<1> QED
  BY <1>1, ConsumersInvariant, NextEnds, PTL DEF ConsumersSpec, consumersVars
=============================================================================
