# o2k client tools: a TLA+ verification project

o2k is a product that reads Oracle's log files and writes the changes as
*binlog* entries to Kafka or to a socket. Its server is not in this repository;
the repository holds the programs around it, and these are what is modelled here:

| part | source | what it does |
|---|---|---|
| `binlogdumpK` | `binlogdump/` (C++) | reads the entries of one topic as a member of a consumer group, prints them, commits at the end |
| `JBinlogDumpK` | `JBinlogDump/src/JBinlogDumpK.java` | the same in Java, with the client library committing by itself |
| `JBinlogDumpS` | `JBinlogDump/src/JBinlogDumpS.java`, `JBinlogOut.java` | reads the entries from the binlog server's socket and prints them, with statistics at the end |
| fraud detection | `FlinkSample/frauddetection` (Java) | a Flink job: alerts when a small change of an account is followed by a large one |
| `qdcadm` | `qdcadm/` (C++) | sends a command to the admin server and shows the answer |
| the messages | `proto/*.proto` and the classes generated from them | what all of the above read and write |

The programs do not talk to each other. What they share is the producer (o2k),
the format of its messages and, for the two readers, Kafka's offsets: a committed
offset is a promise, made to the next run and to the other members of the group,
that everything below it has been dealt with.

## 1. Inventory

### binlogdumpK (`CBinlogKafka.cpp`, `binlogdumpK.cpp`)

*State.* The reader object: the consumer, `m_readOffSet` (positions) and
`m_logOffset` (high watermarks), both lists of partitions. `main`: the options
`-m` (wait mode), `-C` (commit), `-t` (filter by table), and `bExit`, which the
signal handler sets. In librdkafka: the assignment, which a background thread
changes because no rebalance callback is installed, the fetch position and the
application position.

*Operations.* `Init`, `fillOffset` (two `assignment()` calls, then a watermark
query per partition), `Read` (a loop around `consume(5000)`), `CommitOffset`, the
destructor; in `main` the loop that prints and the commit after it.

*Hard behaviour.* Rebalances between any two calls; calls that fail and whose
result is ignored; time-outs that may mean "no data" or "slow broker"; Ctrl-C and
kills anywhere; several runs with the same group.

*Correct means.* No committed offset lies above a message that was asked for and
not printed, whatever happens; offsets do not go back; "0: exit after obtaining
the current all data" ends, and with the data; "1: keep reading" delivers.

### JBinlogDumpK

*State.* `records` in hand, `nTimeO`, the options `-c` and `-w`; in the client
library the assignment and the positions. *Operations.* Creation and
`subscribe`, `poll(1000)`, `PrintBinlog` per record, `close()`. *Hard behaviour.*
The library commits inside `poll` and `close`, and gives partitions away there;
a kill between a poll and the last of its records; empty polls that are counted
over the whole life of the run. *Correct means.* Automatic commits cover printed
records only; a run that does not wait ends, and with what there was.

### JBinlogDumpS

*State.* The connection, the packet in hand, `JBinlogOut.Stat` (plain fields).
*Operations.* `Open`, `HandShake` (HANDSHAKE, CLIENTAUTHENTICATION, ACK),
`DumpBinlog` (DUMP, then packets), the handler in `main`, `PrintBinlog`, `Close`,
the shutdown hook. *Hard behaviour.* TCP may cut a packet anywhere; the hook
runs on its own thread beside `main` after a signal. *Correct means.* The printed
entries are a prefix of what was sent, a heartbeat ends a run that does not wait
and not before its time, the report never claims more than was printed.

### Fraud detection

*State.* Per account `flagState` and `timerState`, and the timers registered with
Flink. *Operations.* `processElement`, `onTimer`, `cleanUp`. *Hard behaviour.*
Several timers per account, late timers, state that must be set and cleared
together. *Correct means.* No flag without a timer that clears it, no alert
without a reason, no two alerts for one small change, no fraud missed.

*Around it.* `BinlogTransactionSchema` makes a transaction, or null, of each message
of the topic and throws at one it cannot decode; `FraudDetectionJob` wires source,
key and detector, without checkpoints and from the earliest offset.

### qdcadm

*State.* Per attempt a connection with its time-out, the packet length; `nLoop`.
*Operations.* Argument checks, `CAdmClient` (connect, `Login`, `SendCommand`,
close), `CMsgRW::ReadPacket`, `ExecuteCommand`. *Hard behaviour.* Answers that are
late, cut or missing; a header used although the stream had ended; a command that
is executed after the client gave up. *Correct means.* What the user is shown is
true of this attempt's command, a command goes out once and only after the
password was accepted, the program ends.

### The messages on the wire

*State.* None of its own: 29 message classes of three `.proto` files, generated for
C++; the buffer of a `CMsgRW`; the counters of `PrintSql`. *Operations.* The
setters, `ByteSizeLong`, `SerializeWithCachedSizes`, `MergePartialFromCodedStream`;
`ReadCommand`, `ReadResult`, `ExecuteCommand` on a packet; `PrintSql` and
`deserialize` on an entry. *Hard behaviour.* A size that is computed apart from the
bytes it announces; a packet that is parsed as a C string although it may hold zero
bytes; results of parsers that nobody looks at; a message within a message. *Correct
means.* What is written is what is read, field for field; a packet is taken for what
it is or for nothing (but for the metrics, section 3); counts are those of the row
changes sent and transactions those of their first rows; only an
entry that cannot be read ends the Flink job.

## 2. Modules

| module | models | checked by | proved in |
|---|---|---|---|
| `KafkaReader` | binlogdumpK | `MCKafkaReader` with five configurations | `KafkaReaderProofs` |
| `JBinlogDumpK` | JBinlogDumpK | `JBinlogDumpK.cfg` | `JBinlogDumpKProofs` |
| `AtLeastOnce` | what both readers promise (abstract) | as a property of the two | `AtLeastOnceProofs`, and the refinement in the readers' proof modules |
| `JBinlogClient` | JBinlogDumpS, JBinlogOut | two configurations | `JBinlogClientProofs` |
| `FraudDetector` | FraudDetector.java | `MCFraudDetector` with two configurations | `FraudDetectorProofs` |
| `FraudPolicy` | what the detector promises of its alerts (abstract) | as a property of `FraudDetector` | the refinement in `FraudDetectorProofs` |
| `AdmClient` | qdcadm: main, session, connection | `AdmClient.cfg` | `AdmClientProofs` |
| `AtMostOnce` | what the attempts of qdcadm promise (abstract) | as a property of `AdmClient` | the refinement in `AdmClientProofs` |
| `ProtoFields`, `AdminMsg`, `BinlogEntry`, `BinlogPackage` | the generated classes as tables | through `Wire` | |
| `ProtoMessages` | messages as the programs have them: defaults, setters, getters | through `Wire` | |
| `ProtoWire` | messages as bytes: sizes, writing, parsing | through `Wire` | |
| `Codec` | what a reader knows of the parser: two constants | through `Wire` | |
| `AdmPackets` | CMsgRW on the bytes of a packet | through `Wire` | `AdmPacketsProofs` |
| `BinlogConsumers` | the topic, PrintSql, BinlogTransactionSchema | through `Wire` | `BinlogConsumersProofs` |
| `Wire` (with the values of `WireSamples`) | sender, packet, topic and its two consumers together | `Wire.cfg` | |

`PROJECT.json` maps every definition to the lines it stands for. Definitions
whose comment starts with "Variant:" are not part of a specification: each is a
plausible bug that one of the properties must notice, and none is used by `Next`.

### KafkaReader

The program counter `pc` follows the code: `loop` is `while (!bExit)` and the
entry of `Read`; `fillRead`, `fillLog` and `query` are the three steps of
`fillOffset`; `consume` is the blocking call, `timedOut` and `message` its two
main cases, `returned` is `main` after `Read`, `commit` is the end. A step of the
group (`Assign`, `Revoke`), of another member (`PeerCommit`), of the producer, a
signal or a kill may fall between any two of them. `AssignInFill` says whether
the assignment may change between the two `assignment()` calls of `fillOffset`;
with `TRUE` the two lists can differ in length and the loop of line 173 reads past
the end of the shorter one. That read is undefined: in `CheckReadEnd` it may yield
either verdict or end the process.

`kmsg` is the message in hand, `printed` the offsets passed to `PrintSql` by any
run or member. `appPos` is librdkafka's application position: invalid until
something has been handed over, and then the offset `commitSync()` commits.

### JBinlogDumpK

The Kafka client works inside `poll` and `close` only, so `AutoCommit`, `Revoke`
and `Assign` happen at `pc = "poll"`. `Fetch` takes any non-empty choice of
available records; they are printed partition by partition in offset order, in
any order of the partitions. `prompt` chooses, for a whole behaviour, whether a
poll comes back empty only when there is nothing to read.

### JBinlogClient

A packet travels as two halves: the length with the first bytes, and the rest.
`Receive` is `RecvProtobufMsg`; with one half there, `dis.read` returns short and
the dump ends. `PrintBinlog` is three or four steps (print the header, count the
total, count the kind, print the body), because the hook may run between them.
`seen` is what the hook is certain to see: what `main` had counted at its last
`println`, whose lock the hook takes as well; the fields are plain, so later
values may or may not be visible.

### FraudDetector

Time is a counter; Flink calls `processElement` and `onTimer` one at a time for
an account, fires the timers in order and each no later than `MaxLag` ticks after
its time. Amounts are in tenths of a unit, so the code's limits are 10 and 5000.
`txs`, `flagTx` and `alerts` are history. `onTimer` clears both states whichever
timer it is, as the code does.

### AdmClient

One connection per attempt, and the server keeps working on a connection the
client has given up: `executed` counts what it did. An answer is a header and a
body. `ReadHeader` follows `ReadPacket`: at the end of the stream `SocketRead`
returns 0, which is not below 0, and the header it did not fill is used, so `len`
is then any of an invalid length, zero, or some length for which the body is
missing.

### AtLeastOnce

The promise, without a program: a topic that grows, the offsets that are wanted, the
ones that have been shown, and a committed offset per partition. A commit may only
pass over wanted messages that have been shown, and never moves back.
`KafkaReader` maps `end` to the lengths of its log, `wanted` to what its filter
selects and `shown` to `printed`; `JBinlogDumpK` wants every message. Assignments,
positions, failures, kills and restarts are not part of it: for a step that only
changes those, the abstract reader stutters. `Commit` lets messages be shown in the
same step, which is what `PeerCommit` does, another member of the group whose
reading is not followed message by message.

### AtMostOnce

The attempts of `qdcadm -l` as remote calls: each is asked for, carried out and given
a verdict. `AdmClient` maps `asked` to the connections on which login and command have
both gone out, `done` to `executed` and `said` to `outcome`; passwords, packets, halves
of an answer and time-outs are stutters. Three things are fixed by the order of the
actions: no call is asked for before the ones before it have their verdict, a verdict
never changes, and a verdict other than "failed" is given only once it is true. What
the promise leaves open is what the code cannot know: a call that is said to have
failed may be carried out after that, and after later calls, if its command had gone
out; if it had not, never.

### FraudPolicy

The detector without flag and timers: the clock, the changes seen and the alerts. A
large change may raise an alert only about the last small change of its account, if
nothing but middling changes came since and it is no further back than the window and
the slack of a late timer; it must raise one if such a change stands alone, with no
small change so shortly before it that the timer of that one can still clear the flag.
`FraudDetector` maps its three history variables to these; `OnTimer` is a stutter. What
the sample's readme promises is this without `Alone`, and is not implemented
(`fraud_missed`).

### The wire modules

`ProtoFields` says how a class is written down as three tables: its fields (the
class declaration), the tags its reading loop compares with, and the field numbers
its writing code writes, in order. The tables are taken from different functions of
the generated code, so that a number or an order that differed between them would
show; `AdminMsg`, `BinlogEntry` and `BinlogPackage` hold them for the 29 classes.
`ProtoMessages` and `ProtoWire` are the generated code itself: setters, with the
oneofs they clear, and getters in the one, `ByteSizeLong`, serialising and merging,
with the unknown fields that are kept, in the other.
Strings and bytes are short sequences of bytes and 255 stands for a byte that makes
text no UTF-8. The protobuf library below (varints, skipping, the UTF-8 check) is
external.

`AdmPackets` is the byte side of what `AdmClient` models by its answers: the buffer
of a `CMsgRW`, its terminator and limits, and `ReadCommand`, `ReadResult` and the
showing part of `ExecuteCommand`, which parse the packet as a C string first and as
an array if that fails (for `MsgMetrics` the other way round). `sent` is the packet
that was read, with the message it was made of. `BinlogConsumers` is the topic with
`PrintSql`, which goes on with whatever a failed parse left, and `deserialize` with
`rowData2Transaction`, where -1 stands for a missing value, each reading at its own
pace. A loop over columns that overwrites what it found is modelled by the last
column of the name (`LastNumber`).

Both modules see bytes only through `Codec`: its constants `Parse` and `TextOk` are
the parser and the check for UTF-8. `Wire.cfg` gives them the recursive functions of
`ProtoWire` (`ParseFrom`, `ValidText`) and gives `BinlogConsumers` the entries of
`WireSamples` (`AllEntries`) with the bytes they become (`EntryBytes`). `Wire` composes
the two: a sender builds a message with calls of setters; a packet goes into a buffer
and is read by one of three callers; an entry goes to the topic.

## 3. Runs

Passing runs:

| run | what it shows | bounds | states |
|---|---|---|---|
| `reader_live` | types, `DeliveryInv`, `CommittedMonotone`, `ReadsAtLeastOnce`, `ReadingEnds`, `WaitModeDelivers` | 1 partition, 1 key and keyless messages, 2 messages, 1 rebalance, 1 failure or kill, 2 starts | 451,324 |
| `reader_two` | `CommittedCovered`, `CaughtUpMeansPrinted` | 2 partitions in either order or alone, 2 keys and keyless messages, 2 messages each, assignments that arrive inside `fillOffset` | 10.3 million |
| `dumpk` | types, `CommittedPrinted`, `DumpsAtLeastOnce`, `EndsCaughtUp`, `DumpEnds` | 2 partitions, 2 messages each, 1 rebalance, 1 failure or kill, 2 starts | 620,881 |
| `jclient` | types, `PrintedInOrder`, `SpeaksProtocol`, `ReportHonest`, `HeartbeatEndIsComplete`, `HeartbeatEnds` | 4 kinds of entry, 3 packets after the handshake, 1 failure or signal | 465,023 |
| `fraud` | types, `ArmedFlag`, `AlertJustified`, `FreshFraudAlerted`, `KeepsPolicy`, `FlagExpires` | 2 accounts, 4 changes at both limits, a minute of 2 ticks, lateness 1 | 2.1 million |
| `adm` | types, `AnswerIsTrue`, `LoginFirst`, `CallsAtMostOnce`, `Terminates` | 3 commands, up to 3 attempts, 2 failures | 165,270 |
| `wire` | types, `RoundTrip`, `HeaderFirst`, `PacketReadsBack`, `PacketParsedAsSent`, `BufferHolds`, `StatisticsMatch`, `TransactionsAreUpdates`, `FirstRowsOnce`, `OnlyBadEntryEndsJob` | every message class, empty and full, with up to 2 further setters; a buffer for 12 bytes, packets of up to 40; 2 entries in the topic | 62,702 |

Why the bounds are enough. The readers treat partitions alike; what can go wrong
between partitions goes wrong with two (lists of different order or length, one
behind and one not). Two messages per partition make a position strictly inside
the log, one rebalance makes a stale list and a second read of the same message,
two starts make a restart from a committed offset. Four changes hold two small
ones with overlapping timers, the large one, and one for the other account. Three
attempts have a first, a middle and a last, and two failures hit two different
attempts or the two halves of one. The rebalance and the second start of
`reader_live` and the second partition of `reader_two` are not taken together: what
they could do to delivery together is excluded by proof, for any number of each
(section 5); so are the bounds of the safety properties of `dumpk`, `jclient`,
`fraud` and `adm`, and in `wire` those of the buffer and of the consumers. For the
liveness properties and for the bytes of a message the bounds are all there is.

In `wire` a full message has something in every field, so two more setters reach
every pair of a field with another and both orders of the members of a oneof. The
lengths are scaled down: 12 for the 1,024 bytes of `LEN_ADM_PKG` and 40 for the 1 MB of
`MAX_ADM_PKG`, so that packets shorter than the buffer, exactly as long, longer, and
longer than the limit all occur. `StaleBytes` are what the memory behind a packet may
hold: the terminator's own value and one that starts a field. Two entries suffice for
the consumers, which keep nothing of a message but counters, transactions and whether
the job runs; `EntriesAssumption` of `BinlogConsumers` is evaluated for all 224 entries
of `AllEntries` with the real codec.

What `wire` says of the double parse of a packet: `MsgType` has `Result = 0`, a
plain field of value 0 is not written, but a submessage is written also if it is
empty, with its length 0; so every `MsgResult` holds a zero byte in its header, its
parse as a C string fails (the text ends within the field), and the parse as an
array, which follows, gives it. `PacketReadsBack` states that of every packet: all of
it is parsed to what was sent, what a C string leaves of it to nothing.
`PacketParsedAsSent`, about the callers, says that everything shown is the message that
was sent, as its own type, with one exception: after `get_metrics`, `ExecuteCommand`
parses any packet as `MsgMetrics` too (`qdcadm.cpp:123-141`). By `AdminMsg.proto:26` the
`msg_type` of the header decides how the rest is decoded; here it does not, and an OK
`MsgResult`, whose bytes parse as a `MsgMetrics`, is shown a second time as one. The
property names that exception (`TakenForMetrics`) and bounds it: a `MsgResult` has been
shown as what it is before, and is OK. A header that is missing counts as `Result`.

What it says of the consumers: `StatisticsMatch` shows a difference that depends on
where the wrong text is: an entry with text in its header that is no UTF-8 is not
counted, since the parse stops before the entry type, while one with such text in a
column is. It counts row changes, which is what the code calls rows: a change of several
rows adds one to "total rows".

`TransactionsAreUpdates` says that the job is given no transaction that no row of an
update shows, with values that are there and not negative. `FirstRowsOnce` says which
updates it is given: of each entry the first row, if it is complete, once and in order,
also when a balance is zero, which is next to the -1 that stands for a missing one. The
other rows of a change give nothing, whatever they hold: `deserialize` looks at
`getRowDatas(0)` only (`BinlogTransactionSchema.java:49`), while the format says that one
change may have several rows (`BinlogEntry.proto:145`), so the fraud detection never sees
those updates. `WireSamples` has changes of two rows with different amounts, one of them
with a first row that is not complete and a second one that would be `Bad`: nothing comes
of either second row. What is not complete, such as a change to or from a negative
balance, is dropped too.

Runs that show a disagreement between the code and its documents:

| run | what the document says | what the code does |
|---|---|---|
| `reader_early_exit` | "Exit after obtaining the current all data" | a partition whose first message takes over 5 s counts as empty (`CBinlogKafka.cpp:174`) |
| `reader_tracked` | `Read` returns 0 or an error code | an assignment between two calls makes it index past a list (`CBinlogKafka.cpp:118`, `174`) |
| `reader_interrupt` | "Keep reading data until manual termination (Ctrl + c)" | with `-m 1` and without an assignment `Read` never looks at `bExit` |
| `jclient_short_read` | `-w` 1 waits for new binlog | a packet that arrives in two pieces ends the dump (`JBinlogDumpS.java:95`) |
| `fraud_missed` | a large change within a minute of a small one is fraud | the timer of an earlier small change clears the flag (`FraudDetector.java:82`) |

Further disagreements that have no run, because they are a single line and no
behaviour is needed to see them:
`SMALL_AMOUNT` is 1.00 and the sample's readme says 0.5; `JBinlogDumpS -S` reads
its value from the option `g` and always ends with the usage (`ParseArgs` of
`JBinlogClient` does the same); `JBinlogDumpK -c` is documented as 0 by default
and is true; `binlogdumpK -x` is documented and not in the option string;
`qdcadm` exits with 0 whatever failed.

Three more are stated exactly by a property that passes, because it says what the code
does and not what the document promises: updates in the rows of a change after the first
are lost to the Flink job (`FirstRowsOnce`; `BinlogEntry.proto:145`); "total rows"
(`binlogdumpK.cpp:129`) counts row changes and so falls short when one has several rows
(`StatisticsMatch`); after `get_metrics` the header does not decide how a packet is
decoded (`PacketParsedAsSent`; `AdminMsg.proto:26`).

All configurations say `CHECK_DEADLOCK FALSE`, since every one of these programs
ends, or stops at a bound. Symmetry is used only where no liveness is checked.

## 4. Fairness

- `KafkaReader`: weak fairness of the program's own steps, since nothing blocks it
  for ever (`consume` returns after 5 s), and strong fairness of `Consume(p)`: a
  message the broker holds is handed over by one of the calls that ask for it.
  `LiveSpec` adds that the group gives the member partitions again; without that
  (`LoneSpec`) Ctrl-C does not end the program, which is `reader_interrupt`.
  Signals, kills, failures and the producer are never fair.
- `JBinlogDumpK`: weak fairness of the program only; `poll` returns after a second.
- `JBinlogClient`: weak fairness of `main`, the hook and the network, and of the
  server's greeting and acknowledgement. The server need not send entries,
  heartbeats or anything else.
- `FraudDetector`: time passes and Flink fires what is due.
- `AdmClient`: weak fairness of the program only. The server need not answer: the
  socket's time-outs, armed by the constructor, are what ends an attempt.
- `Wire` has no liveness property and no fairness.

## 5. Proofs

`tlapm` checks the eight proof modules completely. They use the constants' assumptions
(`ReaderAssumption`, `DumpAssumption`, `DetectorAssumption`, `ClientAssumption`,
`AdmAssumption`, `PacketAssumption`, `EntriesAssumption`) and nothing else: any
partitions, keys, accounts, amounts, entries, commands and bounds, and any assignment
lists, even with a partition named twice.
`AtLeastOnce` assumes nothing of its partitions.

*KafkaReader.* `TypeCorrect` is the type invariant. `CommittedCovered`, the promise
behind a committed offset, is not inductive: it says nothing of the positions
that will be committed. `DeliveryInv` adds `PositionsCovered` (of an assigned
partition everything handed over has been printed, filtered out or is in hand;
a partition that is not assigned has no position; the committed offset is not
above the fetch position) and `InHand` (where in the program something may be in
hand; in particular nothing is when `CommitOffset` runs). `DeliveryStep` shows it
step by step, one lemma for each action that disturbs it; the others fall under
`FrameStep`. `NothingSkipped` is its first conjunct, and `NeverBack` (committed
offsets do not move back) follows from `committed <= fetchPos = appPos` at the one
step that commits. The invariant also explains why the out-of-bounds read of
`CheckReadEnd` cannot lose messages: whichever way it goes, nothing is in hand.

`EndsWithTheData` is `CaughtUpMeansPrinted`. Its invariant, `CaughtUpInv`, adds that
recorded watermarks are of messages that exist, and that a run without `-m 1` has the
verdict `timed_out` only on its way out of the loop. At the step that gives the
verdict the comparison of positions with watermarks meets `PositionsCovered`;
afterwards nothing can undo it, since logs and `printed` only grow (`Grows`).

*AtLeastOnce.* `NothingEverLost` is inductive with the types. `RefinesAtLeastOnce`,
once in `KafkaReaderProofs` and once in `JBinlogDumpKProofs`, shows that initial
states map to initial states and every step to a step or a stutter: a message that
is produced is `Append`, wanted or not by its key; a print is `Show`; each commit is
`Commit`, where `DeliveryInv` or `PositionsPrinted` gives the coverage; the rest
changes none of the four abstract variables. So `NothingLost` holds of both
programs, by one argument at the level where it is a short one.

*JBinlogDumpK.* `TypeCorrect`, and `CommitsCoverPrinted`. `CommittedPrinted` needs
`PositionsPrinted`: of an assigned partition everything below the position is
printed or in hand, nothing is in hand at `poll` and `close`, where the library
commits, and a program that has ended has no partitions. One lemma,
`CommitIsCovered`, serves the three places that commit. `LeavesCaughtUp` is an
action property from the same invariant: the step from `poll` to the end of the loop
takes an empty poll, and a prompt broker has one only if positions are at the ends.

*FraudDetector.* `FlagInv` relates the flag, the transaction that set it, its timer
and the clock: a set flag was set by a small change of the account, its timer is
registered and a minute after that change, and no registered timer is overdue by
more than `MaxLag`. From it `FlagIsArmed`; then `AlertsAreJustified`, since an
alert names the flag's transaction and is raised before its timer is overdue; and
`AtMostOneAlert`, since an alert clears the flag and a later flag names a later
transaction. `FreshIsAlerted` needs a second invariant, `WatchInv`: while a
large change would make fraud of a small one that is fresh (no timer of an earlier
change can fire within its minute), every timer still registered is at its minute or
later and the flag is set. `OnClock`, that timers were registered for small changes a
minute before, is what makes it inductive. Of a change that is not fresh it is false,
as the run `fraud_missed` shows.

`RefinesFraudPolicy` is the three alert properties at once, step by step, and more: an
alert is about the *last* small change, with none but middling ones since. That needs
`StandsOpen` (since the change that set a flag that is still set, the account had
middling changes only), which is inductive with the types. `ProcessAlert` is then
`Alert`, by `FlagInv` and `StandsOpen`; `ProcessSmall` and `ProcessOther` are `Pass`,
because with `WatchInv` a change that the policy finds suspicious meets a set flag; a
timer is a stutter.

*JBinlogClient.* The three arguments are separate. `Turn` says which packets the
client has sent at each place of `main`, from which `ProtocolSpoken`. `ReportInv`
relates the counters, what has been printed and what the hook is sure to see:
`InCount` (what `main` counts is an entry with rows), `Booked` (the counters are
those of the printed entries, but for the one in hand) and `ReadBack` (what the
hook sees and prints is not more than the counters, and all of them after `main`
has ended); `ReportIsHonest` follows although the hook reads the counters at any
moment. `OrderInv` counts: `EntriesIn(n)` is the number of entries among the first
`n` packets, `main` has printed the entries of the packets it is done with, and a
run with `-w 0` is past no heartbeat; `PrintsInOrder` and `EndsComplete` are two
of its conjuncts.

*AdmClient.* `SessionInv` is the conversation on each connection. Either nothing was
sent; or the login, which is still on its way or has been answered; or also the
command, for which the login must have been accepted, and which is on its way or was
answered, by what the server then did. `Progress` says how far the client is in it:
before the command is sent, the login's answer has been read to its end, so nothing
unread can be taken for the command's. `LoginIsFirst`, `OnceAtMost` and `ShownIsTrue`
follow. One lemma for each group of actions keeps it, and `SameConversation` covers
the connections a step does not touch, those the client has given up included.

`RefinesAtMostOnce` needs that what is shown is true for every answer, errors included
(`ShownTrue`: the command had gone out, the server had taken it, and had executed it
or, for an error, had not), and `Reports`: the attempts before the current one have
their verdict, those after it have none. `SendCommand` is then `Ask`, what the server
does with a command is `Execute` or a stutter, `Finish` is `Say`, and everything else
changes none of the three abstract variables. So a later round of `main` never asks
before an earlier one has its verdict, although its command may be executed first.
`OnceAtMost` is one consequence of the promise, as `AtMostOneAlert` is of the policy,
so the runs check the promise and the policy in their place.

*AdmPackets.* For every parser, packet and size of the buffer. `PacketInv` says what
the buffer holds: the packet, then the terminator, then bytes of any kind; from it
`PacketTypeCorrect` and `BufferHoldsPacket`, since a buffer has two bytes more than the
longest packet that goes into it. `ParsedAsSent` is about the callers and assumes of
the classes what only the run can show, `HeaderFirst` and `PacketReadsBack` of every
packet: then the C string of the buffer is that of the packet (`CString` ends at the
terminator or before), it is either the whole packet or parsed to nothing, so each of
the two parses as the type that was sent, in either order, gives the message that was
sent or fails. That nothing else is shown follows from the header, which is the right
one (`HeaderRead`), except after `get_metrics`, where only `TakenForMetrics` is left.

*BinlogConsumers.* For every set of entries, in any order and number, and every codec
for which `EntriesAssumption` holds: the readers' classes give back an entry as it was
built if its text is UTF-8, and of one that is not what the parse meets before. Rows may
have any number of columns, with names of any length and spelling and values of any
kind. `PrintedEntry` and `DeserializedEntry` say what a step makes of one entry, without
its bytes: the code's order of tests gives exactly three outcomes (an exception if
and only if the entry is `Bad`, else null, which an entry with a `Complete` first row
never is, or a transaction that shows that row). Below them are `Spelled` (for a name of
one letter, ignoring case is one of two spellings) and
`NumberOfColumn` (what the loop leaves is the default or the number of a column with the
name: there is a last one, `GreatestNat`, by the well-foundedness of the numbers).
`StatisticsCorrect` then adds one to a counter and one element to the set it counts
(`CounterStep`); `TransactionsCorrect` and `OnlyBadEntryEnds` need that the topic only
grows at its end (`TopicKept`), so what was behind a consumer stays there.
`FirstRowsGiven` carries the witness along: the function from transactions to the entries
they come from (`Sources`) is kept by an entry that gives nothing and extended by one
that gives a transaction (`SourcesKept`, `SourcesGrow`), so it stays increasing and
meets every entry with a complete first row. Of the other rows it says that they give
nothing, since no entry has two transactions and each shows the first row.

Only model-checked: the liveness properties (`ReadingEnds`, `WaitModeDelivers`,
`DumpEnds`, `HeartbeatEnds`, `FlagExpires`, `Terminates`), since the prover has no
rule for `ENABLED`; and of `wire` what is about the bytes of a message (`TypeOK`,
`RoundTrip`, `HeaderFirst`, `PacketReadsBack`, and `EntriesAssumption`, which TLC
evaluates for the entries of the run): messages are nested, so their size, bytes and
parse are defined by recursion, and what a recursive definition computes for every
input needs an induction over data that the installed provers cannot do.

## 6. Not modelled

- `FraudDetectionJob`: it only wires. A restart keeps nothing, so it is a behaviour
  of `FraudDetector` from its initial state, with the replayed changes at the
  processing times of the replay. The model measures time as the code does, so it
  cannot tell that two changes an hour apart in the database come within a minute
  after a restart: the detector does not look at `timestamp`.
- Option parsing and `StrSplit`: only the resulting choices appear. The exit status
  of `qdcadm`, which is 0 whatever failed.
- The text that `PrintSql`, `JBinlogOut` and `qdcadm` print.
- Of the generated code `MergeFrom`, `CopyFrom`, `Swap`, arenas, descriptors and the
  accessors of single fields beyond what the tables say: no program here calls them.
  Numbers are not negative and there are no groups, which no message has.
- The listening, accepting and polling helpers of `SimpleSocketFunc.cpp`: called by
  nobody here.
- The reuse of a `CMsgRW` and its buffer: each object of the programs reads one packet.
- `utmisc.h`: a scope guard, which is when `kmsg` is emptied in `KafkaReader`.
- The help texts of the programs, a server that stays silent for ever without
  closing, and waits whose length matters: six empty polls of
  `JBinlogDumpK` that are spread over its life or spent on joining the group, an interval
  of 300 s against a time-out of 300 s in `qdcadm`, a producer that never pauses in
  `binlogdumpK -m 0`. The models have these behaviours; no property is about them, and
  `PROJECT.json` lists each hazard with the reason.
- Real time, except in `FraudDetector`: a time-out may happen at any moment a call
  waits, which includes every moment at which it would.

## 7. Plan

What is left, in this order:

1. In `FraudPolicy`, a time of the database beside the processing time, so that the
   replay after a restart of the job can be stated; and the readme's rule (the policy
   without `Alone`), with a detector that clears a flag only by its own timer shown to
   implement it.
2. `CMsgRW` over several packets, as its interface would allow: the buffer that grows,
   is kept for a shorter packet and freed by the destructor.
3. `StrSplit` over sequences, with a reference definition of splitting.
4. Two members of one group side by side, both as `KafkaReader`, in place of the
   external `PeerCommit`, over the broker's log and offsets they share.
