----------------------------- MODULE JBinlogDumpK -----------------------------
(***************************************************************************)
(* JBinlogDump/: main of the program JBinlogDumpK (JBinlogDumpK.java): it  *)
(* subscribes to the topics of the given schemas, polls them and prints    *)
(* what it gets.                                                           *)
(*                                                                         *)
(* The Kafka client is external.  Unlike librdkafka's, it works inside     *)
(* poll() and close() only: that is where it joins and leaves the group,   *)
(* where partitions come and go, and where, with enable.auto.commit, it    *)
(* commits the positions after the records that poll() has returned.       *)
(***************************************************************************)
EXTENDS Integers

CONSTANTS
  Partitions,     \* the partitions of the subscribed topics
  MaxLen,         \* bound: messages per partition
  MaxRebalances,  \* bound: revocations of the assignment
  MaxFaults,      \* bound: failed commits and killed processes
  MaxRuns         \* bound: starts of the program

ASSUME DumpAssumption ==
  /\ MaxLen \in Nat /\ MaxRebalances \in Nat /\ MaxFaults \in Nat /\ MaxRuns \in Nat

\* The broker, and the client library.
VARIABLES
  end,            \* per partition, the number of messages the broker holds
  committed,      \* per partition, the group's committed offset
  assigned,       \* the partitions of this member
  position        \* per partition, the next offset poll() returns

\* main.
VARIABLES
  pc,             \* where main is
  records,        \* per partition, the offsets poll() returned that are not printed yet
  nTimeO,         \* the empty polls so far
  printed         \* per partition, the offsets passed to PrintBinlog by any run
                  \* or by another member of the group

\* The arguments, whether the broker always answers a poll that has something
\* to return, and the counters of the bounds.
VARIABLES autoCommit, fgWait, prompt, rebalances, faults, runs

clientVars == <<assigned, position>>
mainVars == <<pc, records, nTimeO>>
argVars == <<autoCommit, fgWait, prompt>>
counters == <<rebalances, faults, runs>>
vars == <<end, committed, clientVars, mainVars, printed, argVars, counters>>

-----------------------------------------------------------------------------
Running == pc # "exited"

NoRecords == [p \in Partitions |-> {}]

Fault == faults < MaxFaults /\ faults' = faults + 1

\* main's options: autoCommit starts as true, and -c 0 turns it off; fgWait as
\* true, and -w with anything but 1 turns it off.
Init ==
  /\ end = [p \in Partitions |-> 0] /\ committed = [p \in Partitions |-> 0]
  /\ assigned = {} /\ position = [p \in Partitions |-> 0]
  /\ pc = "exited" /\ records = NoRecords /\ nTimeO = 0
  /\ printed = [p \in Partitions |-> {}]
  /\ autoCommit \in BOOLEAN /\ fgWait \in BOOLEAN /\ prompt \in BOOLEAN
  /\ rebalances = 0 /\ faults = 0 /\ runs = 0

-----------------------------------------------------------------------------
(* The producer, the group and the client library *)

Produce(p) ==
  /\ end[p] < MaxLen
  /\ end' = [end EXCEPT ![p] = @ + 1]
  /\ UNCHANGED <<committed, clientVars, mainVars, printed, argVars, counters>>

\* Another member prints partition p up to offset n and commits it.
PeerCommit(p, n) ==
  /\ p \notin assigned /\ committed[p] < n /\ n <= end[p]
  /\ printed' = [printed EXCEPT ![p] = @ \cup committed[p]..(n - 1)]
  /\ committed' = [committed EXCEPT ![p] = n]
  /\ UNCHANGED <<end, clientVars, mainVars, argVars, counters>>

CommitPositions ==
  committed' = [p \in Partitions |-> IF p \in assigned THEN position[p] ELSE committed[p]]

\* Inside poll: the commit interval of 1 s is over.
AutoCommit ==
  /\ pc = "poll" /\ autoCommit
  /\ CommitPositions
  /\ UNCHANGED <<end, clientVars, mainVars, printed, argVars, counters>>

\* Inside poll: the member gives up its partitions, and commits them first
\* unless it has been expelled or the commit fails.
Revoke ==
  /\ pc = "poll" /\ assigned # {} /\ rebalances < MaxRebalances
  /\ rebalances' = rebalances + 1
  /\ assigned' = {}
  /\ \/ autoCommit /\ CommitPositions /\ UNCHANGED faults
     \/ ~autoCommit /\ UNCHANGED <<committed, faults>>
     \/ Fault /\ UNCHANGED committed
  /\ UNCHANGED <<end, position, mainVars, printed, argVars, runs>>

\* Inside poll: the member gets partitions, to be read from where the group is.
Assign ==
  /\ pc = "poll" /\ assigned = {}
  /\ \E a \in SUBSET Partitions : a # {} /\ assigned' = a
  /\ position' = committed
  /\ UNCHANGED <<end, committed, mainVars, printed, argVars, counters>>

\* The process is killed, or a signal starts the JVM's shutdown, which does not
\* close the consumer.
Kill ==
  /\ Running /\ Fault
  /\ pc' = "exited" /\ assigned' = {}
  /\ UNCHANGED <<end, committed, position, records, nTimeO, printed, argVars,
                 rebalances, runs>>

-----------------------------------------------------------------------------
(* main *)

\* Up to the loop: the consumer is created and subscribes.
Start ==
  /\ ~Running /\ runs < MaxRuns
  /\ runs' = runs + 1
  /\ pc' = "poll" /\ records' = NoRecords /\ nTimeO' = 0
  /\ UNCHANGED <<end, committed, clientVars, printed, argVars, rebalances, faults>>

\* poll(1000) returns some of the records after each partition's position, and
\* moves the positions after them.
Fetch(upto) ==
  /\ pc = "poll"
  /\ \A p \in Partitions : IF p \in assigned THEN position[p] <= upto[p] /\ upto[p] <= end[p]
                                               ELSE upto[p] = position[p]
  /\ upto # position
  /\ records' = [p \in Partitions |-> position[p]..(upto[p] - 1)]
  /\ position' = upto
  /\ UNCHANGED <<end, committed, assigned, printed, argVars, counters>>

\* Variant: every poll is counted.
PollRecordsCounts(upto) ==
  /\ Fetch(upto)
  /\ nTimeO' = IF nTimeO < 6 THEN nTimeO + 1 ELSE nTimeO
  /\ pc' = IF ~fgWait /\ nTimeO' > 5 THEN "close" ELSE "print"

PollRecords(upto) == Fetch(upto) /\ pc' = "print" /\ UNCHANGED nTimeO

NothingToRead == \A p \in assigned : position[p] = end[p]

\* Variant: the test of -w is lost.
PollEmptyKeepsOn ==
  /\ pc = "poll" /\ (prompt => NothingToRead)
  /\ nTimeO' = IF nTimeO < 6 THEN nTimeO + 1 ELSE nTimeO
  /\ UNCHANGED <<pc, end, committed, clientVars, records, printed, argVars, counters>>

\* Variant: the test of -w counts nothing.
PollEmptyCountsDown ==
  /\ pc = "poll" /\ (prompt => NothingToRead)
  /\ nTimeO' = nTimeO - 1
  /\ pc' = IF ~fgWait /\ nTimeO' < -5 THEN "close" ELSE "poll"
  /\ UNCHANGED <<end, committed, clientVars, records, printed, argVars, counters>>

\* poll(1000) returns nothing.  nTimeO is never reset: with -w 0 the sixth
\* empty poll ends the loop.  In the model it stops at 6 when it has no effect.
PollEmpty ==
  /\ pc = "poll" /\ (prompt => NothingToRead)
  /\ nTimeO' = IF nTimeO < 6 THEN nTimeO + 1 ELSE nTimeO
  /\ pc' = IF ~fgWait /\ nTimeO' > 5 THEN "close" ELSE "poll"
  /\ UNCHANGED <<end, committed, clientVars, records, printed, argVars, counters>>

\* The record at the given offset of p is printed: the first of p that is left.
PrintRecord(p, offset) ==
  /\ pc = "print" /\ offset \in records[p] /\ \A o \in records[p] : offset <= o
  /\ printed' = [printed EXCEPT ![p] = @ \cup {offset}]
  /\ UNCHANGED <<end, committed, clientVars, nTimeO, argVars, counters>>

\* Variant: the loop over the records ends after the first.
PrintFirst(p, offset) ==
  PrintRecord(p, offset) /\ records' = NoRecords /\ pc' = "poll"

\* The loop over the records, partition after partition in any order, and back
\* to poll after the last.
PrintNext(p, offset) ==
  /\ PrintRecord(p, offset)
  /\ records' = [records EXCEPT ![p] = @ \ {offset}]
  /\ pc' = IF records' = NoRecords THEN "poll" ELSE "print"

\* close() commits, if it can, and leaves the group; main ends.
Close ==
  /\ pc = "close"
  /\ pc' = "exited" /\ assigned' = {}
  /\ \/ autoCommit /\ CommitPositions /\ UNCHANGED faults
     \/ ~autoCommit /\ UNCHANGED <<committed, faults>>
     \/ Fault /\ UNCHANGED committed
  /\ UNCHANGED <<end, position, records, nTimeO, printed, argVars, rebalances, runs>>

-----------------------------------------------------------------------------
Environment ==
  \/ \E p \in Partitions : Produce(p) \/ \E n \in 1..MaxLen : PeerCommit(p, n)
  \/ AutoCommit \/ Revoke \/ Assign \/ Kill

Poll ==
  \/ PollEmpty
  \/ \E upto \in [Partitions -> 0..MaxLen] : PollRecords(upto)

Program ==
  \/ Poll \/ Close
  \/ \E p \in Partitions, offset \in 0..(MaxLen - 1) : PrintNext(p, offset)

Next == Environment \/ Start \/ Program

Spec == Init /\ [][Next]_vars

\* main goes on: a poll returns after at most a second.
FairSpec == Spec /\ WF_vars(Program)

-----------------------------------------------------------------------------
(* Properties *)

\* The variables keep their types; offsets stay within what the broker holds.
TypeOK ==
  /\ end \in [Partitions -> 0..MaxLen]
  /\ committed \in [Partitions -> Nat] /\ position \in [Partitions -> Nat]
  /\ \A p \in Partitions : committed[p] <= end[p] /\ position[p] <= end[p]
  /\ assigned \subseteq Partitions
  /\ pc \in {"exited", "poll", "print", "close"}
  /\ records \in [Partitions -> SUBSET Nat] /\ (pc = "print" => records # NoRecords)
  /\ nTimeO \in 0..6
  /\ printed \in [Partitions -> SUBSET Nat]
  /\ autoCommit \in BOOLEAN /\ fgWait \in BOOLEAN /\ prompt \in BOOLEAN

Covered(p, n) == 0..(n - 1) \subseteq printed[p]

\* Every message below a committed offset has been printed, although it is the
\* library that commits by itself, in poll and close, and a run may be killed
\* between a poll and the last of its records.
CommittedPrinted == \A p \in Partitions : Covered(p, committed[p])

\* With -w 0 the loop ends with all printed that its partitions held, if the
\* broker answers promptly: six empty polls, however far apart, are proof enough.
EndsCaughtUp ==
  [][pc = "poll" /\ pc' = "close" /\ prompt =>
       \A p \in assigned : Covered(p, end[p])]_vars

\* Seen from its topics, its group and its output, the program with the commits
\* of its library is an at-least-once reader of every message.
Delivery == INSTANCE AtLeastOnce WITH
  wanted <- [p \in Partitions |-> 0..(end[p] - 1)],
  shown <- printed
DumpsAtLeastOnce == Delivery!Spec

\* With -w 0 the program ends once the producer stops.
DumpEnds == (Running /\ ~fgWait) ~> ~Running
=============================================================================
