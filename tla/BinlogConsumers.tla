--------------------------- MODULE BinlogConsumers ---------------------------
(***************************************************************************)
(* The topic and what two consumers, each at its own pace, make of its     *)
(* messages: PrintSql of binlogdumpK.cpp, which prints and counts them,    *)
(* and the schema of the Flink job, BinlogTransactionSchema.java, which    *)
(* turns them into transactions.  Both decode an Entry and, from its       *)
(* storeValue, a RowChange.  The classes the Java program decodes with are *)
(* external; they read the same format, and throw where the C++ parser is  *)
(* false.                                                                  *)
(***************************************************************************)
EXTENDS Codec, SequencesExt

CONSTANTS
  Entries,    \* what may be produced: a header, a type and the row change it stores
  BytesOf(_)  \* the message of the topic that an entry becomes

\* EntryType and EventType.
TRANSACTIONBEGIN == 1
ROWDATA == 2
TRANSACTIONEND == 3
INSERT == 1
UPDATE == 2
DELETE == 3

VARIABLES
  topic,        \* the entries that were produced
  printed,      \* how many of them binlogdumpK has printed
  gbStat,       \* its counters
  processed,    \* how many of them the job has read
  transactions, \* what the job was given
  jobRuns       \* an exception of the schema ends it

printerVars == <<printed, gbStat>>
jobVars == <<processed, transactions, jobRuns>>

\* The getters of an Entry and of a RowChange; also of what was produced.
HeaderOf(entry) == ValueOr(entry.header, Empty("Header"))
EntryTypeOf(entry) == ValueOr(entry.entryType, 0)
EventTypeOf(rowChange) == ValueOr(rowChange.eventType, 0)

IsRow(e) == EntryTypeOf(e) = ROWDATA

\* The columns of the row that the job looks at, the first of the change.
ImagesOf(rowChange) ==
  IF rowChange.rowDatas = <<>> THEN {}
  ELSE {rowChange.rowDatas[1].beforeColumns, rowChange.rowDatas[1].afterColumns}

-----------------------------------------------------------------------------
(* What the readers of the topic rely on *)

IsText(s) == s \in Seq(0..255)

\* The classes read an entry as it was built, if the text of its header is UTF-8;
\* if not, they fail before they reach its type.
EntryReadsBack(e) ==
  LET read == Parse("Entry", BytesOf(e))
  IN  /\ read.ok = TextOk("Header", HeaderOf(e))
      /\ IF read.ok THEN read.msg.header = e.header /\ read.msg.entryType = e.entryType
         ELSE ~IsRow(read.msg)

\* Of the row change, which is in storeValue, they also read the kind if some text
\* of it, which is in the rows, is no UTF-8.
ChangeReadsBack(e) ==
  LET read == Parse("RowChange", Parse("Entry", BytesOf(e)).msg.storeValue)
  IN  /\ read.ok = TextOk("RowChange", e.change)
      /\ read.ok => read.msg = e.change
      /\ EventTypeOf(read.msg) = EventTypeOf(e.change)

ASSUME EntriesAssumption ==
  \A e \in Entries :
    /\ BytesOf(e) # <<>> /\ EntryReadsBack(e)
    /\ IsRow(e) /\ TextOk("Header", HeaderOf(e)) => ChangeReadsBack(e)
    /\ IsText(HeaderOf(e).tableName)
    /\ e.change.rowDatas \in Seq(Range(e.change.rowDatas))
    /\ \A columns \in ImagesOf(e.change) :
         Len(columns) \in Nat /\ \A i \in 1..Len(columns) : IsText(columns[i].name)

-----------------------------------------------------------------------------
(* PrintSql *)

NoStatistics == [TotalRows |-> 0, InsertCnt |-> 0, UpdateCnt |-> 0, DeleteCnt |-> 0]

\* One more row change, of the kind event.
CountRow(event) ==
  gbStat' = [TotalRows |-> gbStat.TotalRows + 1,
             InsertCnt |-> gbStat.InsertCnt + (IF event = INSERT THEN 1 ELSE 0),
             UpdateCnt |-> gbStat.UpdateCnt + (IF event = UPDATE THEN 1 ELSE 0),
             DeleteCnt |-> gbStat.DeleteCnt + (IF event = DELETE THEN 1 ELSE 0)]

\* Variant: what cannot be parsed completely is not counted.
PrintSqlStrict(buf) ==
  \E entry \in {Parse("Entry", buf)} :
  \E rowChange \in {Parse("RowChange", entry.msg.storeValue)} :
    IF buf # <<>> /\ entry.ok /\ EntryTypeOf(entry.msg) = ROWDATA /\ rowChange.ok
    THEN CountRow(EventTypeOf(rowChange.msg)) ELSE UNCHANGED gbStat

\* Whether a parse succeeds is not looked at: the fields before the one that
\* fails are used, the others have their defaults.
PrintSql(buf) ==
  \E entry \in {Parse("Entry", buf).msg} :
  \E rowChange \in {Parse("RowChange", entry.storeValue).msg} :
    IF buf # <<>> /\ EntryTypeOf(entry) = ROWDATA
    THEN CountRow(EventTypeOf(rowChange)) ELSE UNCHANGED gbStat

\* Read hands the next message to PrintSql.
PrintEntry ==
  /\ printed < Len(topic)
  /\ \E buf \in {BytesOf(topic[printed + 1])} : PrintSql(buf)
  /\ printed' = printed + 1
  /\ UNCHANGED <<topic, jobVars>>

-----------------------------------------------------------------------------
(* BinlogTransactionSchema *)

\* The names that matter, by their first letter: account, accountid, balance.
Account == <<97>>
AccountId == <<105>>
Balance == <<98>>

EqualsIgnoreCase(s, t) ==
  LET Lower(x) == [i \in 1..Len(x) |-> IF x[i] \in 65..90 THEN x[i] + 32 ELSE x[i]]
  IN  Lower(s) = Lower(t)

\* Long.parseLong and Double.parseDouble: whole numbers; other text throws.
IsNumber(text) ==
  LET digits == IF text # <<>> /\ text[1] = 45 THEN Tail(text) ELSE text
  IN  digits # <<>> /\ \A i \in 1..Len(digits) : digits[i] \in 48..57

Number(text) ==
  LET Value(digits) == FoldLeft(LAMBDA n, c : 10 * n + (c - 48), 0, digits)
  IN  IF text[1] = 45 THEN -Value(Tail(text)) ELSE Value(text)

\* Variant: what a row does not have is 0.
MyRowZero == [accountId |-> 0, balance |-> 0]

\* What rowData2Transaction starts from.
MyRow == [accountId |-> -1, balance |-> -1]

\* The columns with a name, which the loop over one image of the row converts.
ColumnsNamed(columns, name) == {i \in 1..Len(columns) : EqualsIgnoreCase(columns[i].name, name)}

\* No conversion of the loop throws.
RowReadable(columns) ==
  \A i \in ColumnsNamed(columns, AccountId) \cup ColumnsNamed(columns, Balance) :
    IsNumber(columns[i].value)

\* What the loop leaves: of two columns with the name the last one counts.
LastNumber(columns, name, default) ==
  LET named == ColumnsNamed(columns, name)
  IN  IF named = {} THEN default ELSE Number(columns[Max(named)].value)

ReadRow(columns) ==
  [accountId |-> LastNumber(columns, AccountId, MyRow.accountId),
   balance |-> LastNumber(columns, Balance, MyRow.balance)]

\* Null drops the message.
Null == UNCHANGED <<transactions, jobRuns>>
Exception == jobRuns' = FALSE /\ UNCHANGED transactions

\* Variant: a balance of zero is taken for missing too.
RowData2TransactionPositive(rowData, executeTime) ==
  IF ~RowReadable(rowData.beforeColumns) \/ ~RowReadable(rowData.afterColumns)
  THEN Exception
  ELSE \E old \in {ReadRow(rowData.beforeColumns)}, new \in {ReadRow(rowData.afterColumns)} :
    IF new.accountId < 0 \/ new.balance <= 0 \/ old.balance <= 0 THEN Null
    ELSE /\ transactions' = Append(transactions,
              [accountId |-> new.accountId, timestamp |-> executeTime,
               amount |-> IF new.balance > old.balance THEN new.balance - old.balance
                          ELSE old.balance - new.balance])
         /\ UNCHANGED jobRuns

\* Math.abs(newRow.balance-oldRow.balance) for the account of the new row.
RowData2Transaction(rowData, executeTime) ==
  IF ~RowReadable(rowData.beforeColumns) \/ ~RowReadable(rowData.afterColumns)
  THEN Exception
  ELSE \E old \in {ReadRow(rowData.beforeColumns)}, new \in {ReadRow(rowData.afterColumns)} :
    IF new.accountId < 0 \/ new.balance < 0 \/ old.balance < 0 THEN Null
    ELSE /\ transactions' = Append(transactions,
              [accountId |-> new.accountId, timestamp |-> executeTime,
               amount |-> IF new.balance > old.balance THEN new.balance - old.balance
                          ELSE old.balance - new.balance])
         /\ UNCHANGED jobRuns

\* Variant: everything is decoded before anything is looked at.
DeserializeEager(bytes) ==
  \E entry \in {Parse("Entry", bytes)} :
  \E header \in {HeaderOf(entry.msg)},
     rowChange \in {Parse("RowChange", entry.msg.storeValue)} :
    IF bytes = <<>> THEN Null
    ELSE IF ~entry.ok \/ ~rowChange.ok THEN Exception
    ELSE IF /\ EntryTypeOf(entry.msg) = ROWDATA
            /\ EqualsIgnoreCase(header.tableName, Account)
            /\ EventTypeOf(rowChange.msg) = UPDATE /\ rowChange.msg.rowDatas # <<>>
    THEN RowData2Transaction(rowChange.msg.rowDatas[1], header.executeTime)
    ELSE Null

\* A message of the topic: a transaction, null, or an exception.
Deserialize(bytes) ==
  \E entry \in {Parse("Entry", bytes)} :
  \E header \in {HeaderOf(entry.msg)},
     rowChange \in {Parse("RowChange", entry.msg.storeValue)} :
    IF bytes = <<>> THEN Null
    ELSE IF ~entry.ok THEN Exception
    ELSE IF EntryTypeOf(entry.msg) # ROWDATA THEN Null
    ELSE IF ~EqualsIgnoreCase(header.tableName, Account) THEN Null
    ELSE IF ~rowChange.ok THEN Exception
    ELSE IF EventTypeOf(rowChange.msg) # UPDATE THEN Null
    ELSE IF rowChange.msg.rowDatas = <<>> THEN Null
    ELSE RowData2Transaction(rowChange.msg.rowDatas[1], header.executeTime)

\* The source of the job deserialises the next message.
ProcessEntry ==
  /\ jobRuns /\ processed < Len(topic)
  /\ \E bytes \in {BytesOf(topic[processed + 1])} : Deserialize(bytes)
  /\ processed' = processed + 1
  /\ UNCHANGED <<topic, printerVars>>

-----------------------------------------------------------------------------
(* The topic and its consumers *)

ConsumersInit ==
  /\ topic = <<>> /\ printed = 0 /\ gbStat = NoStatistics
  /\ processed = 0 /\ transactions = <<>> /\ jobRuns = TRUE

\* The server produces an entry to Kafka.
Produce(e) == topic' = Append(topic, e) /\ UNCHANGED <<printerVars, jobVars>>

ConsumersNext == (\E e \in Entries : Produce(e)) \/ PrintEntry \/ ProcessEntry

ConsumersSpec == ConsumersInit /\ [][ConsumersNext]_<<topic, printerVars, jobVars>>

-----------------------------------------------------------------------------
(* What was sent, without the bytes *)

\* A name of one letter in small and capital letters.
Spellings(name) == {name, <<name[1] - 32>>}

IsAccount(e) == HeaderOf(e).tableName \in Spellings(Account)

\* The values of a column in one image of a row, by the name.
ValuesOf(columns, name) ==
  {columns[i].value : i \in {j \in 1..Len(columns) : columns[j].name \in Spellings(name)}}

\* The numbers of a column that are not below zero.
NumbersOf(columns, name) ==
  {Number(v) : v \in {w \in ValuesOf(columns, name) : IsNumber(w) /\ ~(Number(w) < 0)}}

\* An entry that updates accounts; each of its rows is the update of one.
IsUpdate(e) == IsRow(e) /\ IsAccount(e) /\ EventTypeOf(e.change) = UPDATE
RowsOf(e) == 1..Len(e.change.rowDatas)

\* A transaction is the change of the balance that the update in row r of e shows,
\* of the account that it shows and at the time of e.
IsChangeIn(transaction, e, r) ==
  /\ IsUpdate(e) /\ r \in RowsOf(e)
  /\ LET row == e.change.rowDatas[r] IN
       /\ transaction.accountId \in NumbersOf(row.afterColumns, AccountId)
       /\ \E before \in NumbersOf(row.beforeColumns, Balance),
             after \in NumbersOf(row.afterColumns, Balance) :
            transaction.amount \in {after - before, before - after}
  /\ transaction.timestamp = HeaderOf(e).executeTime

\* A transaction that a row of the entry shows.
ShownIn(transaction, e) == \E r \in RowsOf(e) : IsChangeIn(transaction, e, r)

\* The entries that were printed and are row changes with a header that can be
\* read, and those of one kind.
RowsPrinted ==
  {i \in 1..printed : IsRow(topic[i]) /\ TextOk("Header", HeaderOf(topic[i]))}
RowsPrintedOf(event) == {i \in RowsPrinted : EventTypeOf(topic[i].change) = event}

\* An entry with text that is no UTF-8, or an update of an account with a value in
\* its first row that is no number.
Bad(e) ==
  \/ ~TextOk("Header", HeaderOf(e))
  \/ IsRow(e) /\ IsAccount(e) /\ ~TextOk("RowChange", e.change)
  \/ /\ IsUpdate(e)
     /\ \E columns \in ImagesOf(e.change), name \in {AccountId, Balance} :
          \E v \in ValuesOf(columns, name) : ~IsNumber(v)

\* The update in row r of e shows all that a transaction is made of.
Complete(e, r) ==
  /\ IsUpdate(e) /\ r \in RowsOf(e) /\ ~Bad(e)
  /\ LET row == e.change.rowDatas[r] IN
       \A values \in {ValuesOf(row.afterColumns, AccountId),
                      ValuesOf(row.afterColumns, Balance), ValuesOf(row.beforeColumns, Balance)} :
         values # {} /\ \A v \in values : ~(Number(v) < 0)

-----------------------------------------------------------------------------
(* Properties *)

\* The topic holds entries, no consumer is ahead of it, and no message gives more
\* than one transaction.
ConsumersTypeOK ==
  /\ topic \in Seq(Entries) /\ printed \in 0..Len(topic) /\ processed \in 0..Len(topic)
  /\ gbStat \in [DOMAIN NoStatistics -> Nat] /\ Len(transactions) \in 0..processed
  /\ jobRuns \in BOOLEAN

\* The statistics at the end of the dump count every row change whose header can
\* be read, by its kind, also when a column of it is no UTF-8 and the result of
\* the parser, which nobody looks at, was false; and nothing else.  They count row
\* changes: a change of several rows is one in "total rows" too.
StatisticsMatch ==
  /\ gbStat.TotalRows = Cardinality(RowsPrinted)
  /\ gbStat.InsertCnt = Cardinality(RowsPrintedOf(INSERT))
  /\ gbStat.UpdateCnt = Cardinality(RowsPrintedOf(UPDATE))
  /\ gbStat.DeleteCnt = Cardinality(RowsPrintedOf(DELETE))

\* Every transaction is the change of a balance that a row of an update of accounts
\* in the topic shows, from values that are there and not below zero: the -1 of a
\* value that is missing goes into none, nor does a balance below zero, which the
\* program cannot tell from a missing one.
TransactionsAreUpdates ==
  \A k \in 1..Len(transactions) : \E i \in 1..processed : ShownIn(transactions[k], topic[i])

\* Of each update entry the job is given the first row, and no other: f tells the
\* entry that a transaction was made of, at most one is made of an entry, they come
\* in the order of the topic, and no complete first row is left out.  A change may
\* have several rows, and getRowDatas(0) in deserialize looks at the first only:
\* the updates in the others never reach the job, however complete they are.
FirstRowsOnce ==
  \E f \in [1..Len(transactions) -> 1..processed] :
    /\ \A k, l \in 1..Len(transactions) : k < l => f[k] < f[l]
    /\ \A k \in 1..Len(transactions) : IsChangeIn(transactions[k], topic[f[k]], 1)
    /\ \A i \in 1..processed :
         Complete(topic[i], 1) => \E k \in 1..Len(transactions) : f[k] = i

\* Nothing but a bad entry ends the job, and it reads nothing after it.
OnlyBadEntryEndsJob == jobRuns <=> \A i \in 1..processed : ~Bad(topic[i])
=============================================================================
