------------------------------ MODULE KafkaReader ------------------------------
(***************************************************************************)
(* binlogdump/: the C++ program binlogdumpK, that is the class             *)
(* CBinlogKafkaReader (CBinlogKafka.cpp) driven by main (binlogdumpK.cpp). *)
(*                                                                         *)
(* One process reads the binlog messages of one topic as a member of a     *)
(* consumer group.  What librdkafka and the broker do is external; it is   *)
(* modelled from how the reader uses it: consume() hands over the messages *)
(* of an assigned partition in order, position() returns the offset after  *)
(* the last one handed over, commitSync() commits those positions, and the *)
(* group assigns and revokes partitions in a background thread, because    *)
(* the reader installs no rebalance callback.                              *)
(***************************************************************************)
EXTENDS Integers, Sequences

CONSTANTS
  Partitions,     \* the partitions of the topic
  Keys,           \* the message keys (table names)
  NoKey,          \* a message without a key
  Assignments,    \* the partition lists the group may assign to this member
  AssignInFill,   \* may the assignment change between the two assignment()
                  \* calls of fillOffset?
  MaxLen,         \* bound: messages per partition
  MaxRebalances,  \* bound: revocations of the assignment
  MaxFaults,      \* bound: failed client calls and killed processes
  MaxRuns         \* bound: starts of the program with the same arguments

ASSUME ReaderAssumption ==
  /\ NoKey \notin Keys
  /\ Assignments \subseteq Seq(Partitions)
  /\ AssignInFill \in BOOLEAN
  /\ MaxLen \in Nat /\ MaxRebalances \in Nat
  /\ MaxFaults \in Nat /\ MaxRuns \in Nat

\* The broker, and the member's state inside librdkafka.
VARIABLES
  log,            \* per partition, the keys of the messages appended so far
  committed,      \* per partition, the group's committed offset, 0 if none:
                  \* auto.offset.reset is earliest, so 0 is where it starts
  assigned,       \* the partitions assigned to this member, in order
  fetchPos,       \* per partition, the next offset consume() hands over
  appPos          \* per partition, the offset after the last one handed over

\* The reader object and main.
VARIABLES
  readOffSet,     \* m_readOffSet: <<partition, offset>> pairs
  logOffset,      \* m_logOffset: <<partition, high watermark>> pairs
  kmsg,           \* the message in hand, a set of at most one <<p, offset>>
  rc,             \* what the last Read returned
  pc,             \* where the program is
  bExit           \* set by SIGINT

\* The arguments of the program, and what it has shown.
VARIABLES
  waitMode, commit, filterKeys,
  printed         \* per partition, the offsets passed to PrintSql, by any run
                  \* of the program or by another member of the group

\* The counters the bounds apply to.
VARIABLES rebalances, faults, runs

brokerVars == <<log, committed>>
memberVars == <<assigned, fetchPos, appPos>>
readerVars == <<readOffSet, logOffset, kmsg, rc, pc, bExit>>
argVars    == <<waitMode, commit, filterKeys>>
counters   == <<rebalances, faults, runs>>
vars == <<brokerVars, memberVars, readerVars, argVars, printed, counters>>

-----------------------------------------------------------------------------
\* RD_KAFKA_OFFSET_INVALID, the offset of a partition nothing was read from.
Invalid == -1001

Running == pc # "exited"
Owned == {assigned[i] : i \in 1..Len(assigned)}
Untouched == [p \in Partitions |-> Invalid]

\* assignment(v): the assigned partitions, none with an offset yet.
AssignmentList == [i \in 1..Len(assigned) |-> <<assigned[i], Invalid>>]

\* The key test of Read, lines 197-214: a keyed message is returned when there
\* is no filter or when a filter key equals its key.
Wanted(k) == k # NoKey /\ (filterKeys = {} \/ k \in filterKeys)

\* The key of the message at offset o (from 0) of partition p.
KeyAt(p, o) == log[p][o + 1]

\* Every message of p below n that the arguments ask for has been printed.
Covered(p, n) == \A o \in 0..(n - 1) : Wanted(KeyAt(p, o)) => o \in printed[p]

Fault == faults < MaxFaults /\ faults' = faults + 1

-----------------------------------------------------------------------------
Init ==
  /\ log = [p \in Partitions |-> <<>>]
  /\ committed = [p \in Partitions |-> 0]
  /\ assigned = <<>>
  /\ fetchPos = [p \in Partitions |-> 0]
  /\ appPos = Untouched
  /\ readOffSet = <<>> /\ logOffset = <<>>
  /\ kmsg = {} /\ rc = "ok" /\ pc = "exited" /\ bExit = FALSE
  /\ waitMode \in BOOLEAN /\ commit \in BOOLEAN /\ filterKeys \in SUBSET Keys
  /\ printed = [p \in Partitions |-> {}]
  /\ rebalances = 0 /\ faults = 0 /\ runs = 0

-----------------------------------------------------------------------------
\* The environment: the producer, the group, another member, the user.

\* o2k appends a binlog message to partition p.
Produce(p, k) ==
  /\ Len(log[p]) < MaxLen
  /\ log' = [log EXCEPT ![p] = Append(@, k)]
  /\ UNCHANGED <<committed, memberVars, readerVars, argVars, printed, counters>>

\* A background change of the assignment may fall anywhere in the program,
\* between the two assignment() calls of fillOffset only if AssignInFill.
MayRebalance == Running /\ (pc = "fillLog" => AssignInFill)

\* The group revokes the assignment (eager rebalancing); nothing is committed,
\* since enable.auto.commit is false.
Revoke ==
  /\ MayRebalance /\ assigned # <<>> /\ rebalances < MaxRebalances
  /\ assigned' = <<>>
  /\ appPos' = Untouched
  /\ rebalances' = rebalances + 1
  /\ UNCHANGED <<brokerVars, fetchPos, readerVars, argVars, printed, faults, runs>>

\* The group assigns partitions; each is fetched from its committed offset.
Assign ==
  /\ MayRebalance /\ assigned = <<>>
  /\ \E a \in Assignments \ {<<>>} : assigned' = a
  /\ fetchPos' = committed
  /\ UNCHANGED <<brokerVars, appPos, readerVars, argVars, printed, counters>>

\* Another member that runs the same program reads partition p up to offset n,
\* prints what it read and commits it.
PeerCommit(p, n) ==
  /\ p \notin Owned
  /\ committed[p] < n /\ n <= Len(log[p])
  /\ printed' = [printed EXCEPT ![p] = @ \cup committed[p]..(n - 1)]
  /\ committed' = [committed EXCEPT ![p] = n]
  /\ UNCHANGED <<log, memberVars, readerVars, argVars, counters>>

\* sig_handler: Ctrl-C only sets a flag.
Interrupt ==
  /\ Running /\ ~bExit
  /\ bExit' = TRUE
  /\ UNCHANGED <<brokerVars, memberVars, readOffSet, logOffset, kmsg, rc, pc,
                 argVars, printed, counters>>

\* The member leaves the group when its process ends, in whatever way.
Leave ==
  /\ pc' = "exited"
  /\ assigned' = <<>> /\ appPos' = Untouched
  /\ kmsg' = {}

\* The process is killed; nothing it read is committed.
Crash ==
  /\ Running /\ Fault
  /\ Leave
  /\ UNCHANGED <<brokerVars, fetchPos, readOffSet, logOffset, rc, bExit,
                 argVars, printed, rebalances, runs>>

-----------------------------------------------------------------------------
\* CBinlogKafkaReader::Init and the first lines of main.  Init aborts when the
\* consumer cannot be created or cannot subscribe.
Start ==
  /\ ~Running /\ runs < MaxRuns
  /\ runs' = runs + 1
  /\ readOffSet' = <<>> /\ logOffset' = <<>>
  /\ kmsg' = {} /\ rc' = "ok" /\ bExit' = FALSE
  /\ \/ pc' = "loop" /\ UNCHANGED faults
     \/ pc' = "exited" /\ Fault
  /\ UNCHANGED <<brokerVars, memberVars, argVars, printed, rebalances>>

\* while (!bExit) of main, and the entry of Read: fillOffset if m_logOffset is
\* empty, then the consume loop.
Loop ==
  /\ pc = "loop"
  /\ pc' = IF bExit THEN "commit"
           ELSE IF logOffset = <<>> THEN "fillRead" ELSE "consume"
  /\ UNCHANGED <<brokerVars, memberVars, readOffSet, logOffset, kmsg, rc, bExit,
                 argVars, printed, counters>>

\* Variant: the case of a message ends after fillOffset, as the time-out case
\* does, and its message is dropped.
AfterFillDropsMessage == "consume"

\* Where a fillOffset call returns to, whatever it returns: its callers ignore
\* the result.  It is called with a message in hand on line 193 only.
AfterFill == IF kmsg = {} THEN "consume" ELSE "message"

\* fillOffset, first call: m_consumer->assignment(m_readOffSet).
FillRead ==
  /\ pc = "fillRead"
  /\ \/ /\ readOffSet' = AssignmentList
        /\ pc' = "fillLog"
        /\ UNCHANGED faults
     \/ /\ Fault
        /\ pc' = AfterFill
        /\ UNCHANGED readOffSet
  /\ UNCHANGED <<brokerVars, memberVars, logOffset, kmsg, rc, bExit,
                 argVars, printed, rebalances, runs>>

\* fillOffset, second call: m_consumer->assignment(m_logOffset).
FillLog ==
  /\ pc = "fillLog"
  /\ \/ /\ logOffset' = AssignmentList
        /\ pc' = IF assigned = <<>> THEN AfterFill ELSE "query"
        /\ UNCHANGED faults
     \/ /\ Fault
        /\ pc' = AfterFill
        /\ UNCHANGED logOffset
  /\ UNCHANGED <<brokerVars, memberVars, readOffSet, kmsg, rc, bExit,
                 argVars, printed, rebalances, runs>>

\* fillOffset, the loop: the high watermark of the first partition of
\* m_logOffset that has none.  A failure leaves the rest without one.
QueryWatermark ==
  /\ pc = "query"
  /\ \/ \E i \in 1..Len(logOffset) :
          /\ logOffset[i][2] = Invalid
          /\ \A j \in 1..(i - 1) : logOffset[j][2] # Invalid
          /\ logOffset' = [logOffset EXCEPT ![i] =
                             <<logOffset[i][1], Len(log[logOffset[i][1]])>>]
          /\ pc' = IF i = Len(logOffset) THEN AfterFill ELSE "query"
          /\ UNCHANGED faults
     \/ /\ Fault
        /\ pc' = AfterFill
        /\ UNCHANGED logOffset
  /\ UNCHANGED <<brokerVars, memberVars, readOffSet, kmsg, rc, bExit,
                 argVars, printed, rebalances, runs>>

\* Variant: the position is taken before the message instead of after it.
ConsumePositionBefore(p) ==
  /\ pc = "consume"
  /\ p \in Owned /\ fetchPos[p] < Len(log[p])
  /\ kmsg' = {<<p, fetchPos[p]>>}
  /\ fetchPos' = [fetchPos EXCEPT ![p] = @ + 1]
  /\ appPos' = [appPos EXCEPT ![p] = fetchPos[p] - 1]
  /\ pc' = IF logOffset = <<>> THEN "fillRead" ELSE "message"
  /\ UNCHANGED <<brokerVars, assigned, readOffSet, logOffset, rc, bExit,
                 argVars, printed, counters>>

\* consume(5000) returns the next message of an assigned partition
\* (ERR_NO_ERROR); handing it over moves the position past it.
Consume(p) ==
  /\ pc = "consume"
  /\ p \in Owned /\ fetchPos[p] < Len(log[p])
  /\ kmsg' = {<<p, fetchPos[p]>>}
  /\ fetchPos' = [fetchPos EXCEPT ![p] = @ + 1]
  /\ appPos' = [appPos EXCEPT ![p] = fetchPos[p] + 1]
  /\ pc' = IF logOffset = <<>> THEN "fillRead" ELSE "message"
  /\ UNCHANGED <<brokerVars, assigned, readOffSet, logOffset, rc, bExit,
                 argVars, printed, counters>>

\* consume(5000) returns ERR__TIMED_OUT: nothing was fetched for 5 s, be it
\* that nothing is there or that the broker is slow.
ConsumeTimedOut ==
  /\ pc = "consume"
  /\ pc' = IF logOffset = <<>> THEN "fillRead" ELSE "timedOut"
  /\ UNCHANGED <<brokerVars, memberVars, readOffSet, logOffset, kmsg, rc, bExit,
                 argVars, printed, counters>>

\* consume(5000) returns an error: Read returns it at once.
ConsumeError ==
  /\ pc = "consume" /\ Fault
  /\ rc' \in {"eof", "unknown_partition", "fail"}
  /\ pc' = "returned"
  /\ UNCHANGED <<brokerVars, memberVars, readOffSet, logOffset, kmsg, bExit,
                 argVars, printed, rebalances, runs>>

\* ERR_NO_ERROR, from line 196: no key is an error, a key that is filtered out
\* goes back to consume() inside Read, any other message is returned.
HandleMessage ==
  /\ pc = "message"
  /\ \E m \in kmsg :
       LET k == KeyAt(m[1], m[2]) IN
         /\ kmsg' = IF Wanted(k) THEN kmsg ELSE {}
         /\ rc' = IF k = NoKey THEN "fail" ELSE IF Wanted(k) THEN "ok" ELSE rc
         /\ pc' = IF k # NoKey /\ ~Wanted(k) THEN "consume" ELSE "returned"
  /\ UNCHANGED <<brokerVars, memberVars, readOffSet, logOffset, bExit,
                 argVars, printed, counters>>

\* Variant: only the first partition is compared.
BehindFirstOnly(pos, i) ==
  i = 1 /\ pos[i][2] > Invalid /\ pos[i][2] < logOffset[i][2]

\* The loop of lines 173-184 at index i: this partition has been read from and
\* its position is below its recorded watermark.
Behind(pos, i) == pos[i][2] > Invalid /\ pos[i][2] < logOffset[i][2]

\* position(m_readOffSet)
Positions == [i \in 1..Len(readOffSet) |->
                <<readOffSet[i][1], appPos[readOffSet[i][1]]>>]

\* ERR__TIMED_OUT with m_logOffset filled: get the positions, then compare them
\* index by index with the watermarks.  Read returns when no partition is
\* behind.  The loop indexes m_readOffSet up to the size of m_logOffset: past
\* the end of m_readOffSet the build reads a stale or a wild pointer, so it may
\* get either verdict or die.
CheckReadEnd ==
  /\ pc = "timedOut"
  /\ LET pos == Positions
         behind == \E i \in 1..Len(logOffset) :
                     i <= Len(pos) /\ Behind(pos, i)
         inBounds == Len(logOffset) <= Len(pos)
         goOn == pc' = "consume" /\ UNCHANGED <<rc, kmsg, assigned, appPos>>
         caughtUp == /\ rc' = "timed_out" /\ pc' = "returned"
                     /\ UNCHANGED <<kmsg, assigned, appPos>>
     IN \/ /\ readOffSet' = pos
           /\ \/ (behind \/ ~inBounds) /\ goOn
              \/ ~behind /\ caughtUp
              \/ ~behind /\ ~inBounds /\ Leave /\ UNCHANGED rc
           /\ UNCHANGED faults
        \/ /\ Fault   \* position() fails
           /\ rc' = "fail" /\ pc' = "returned"
           /\ UNCHANGED <<readOffSet, kmsg, assigned, appPos>>
  /\ UNCHANGED <<brokerVars, fetchPos, logOffset, bExit,
                 argVars, printed, rebalances, runs>>

\* Variant: main leaves its loop on an interrupt before it prints.
ReturnedInterruptFirst ==
  /\ pc = "returned"
  /\ printed' = IF bExit THEN printed
                ELSE [p \in Partitions |->
                   printed[p] \cup {m[2] : m \in {n \in kmsg : n[1] = p}}]
  /\ kmsg' = {}
  /\ pc' = IF bExit THEN "commit"
           ELSE IF rc = "ok" \/ (rc = "timed_out" /\ waitMode) THEN "loop" ELSE "commit"
  /\ UNCHANGED <<brokerVars, memberVars, readOffSet, logOffset, rc, bExit,
                 argVars, counters>>

\* Variant: a time-out is waited out whatever -w says.
ReturnedAlwaysWaits ==
  /\ pc = "returned"
  /\ printed' = [p \in Partitions |->
                   printed[p] \cup {m[2] : m \in {n \in kmsg : n[1] = p}}]
  /\ kmsg' = {}
  /\ pc' = IF rc \in {"ok", "timed_out"} THEN "loop" ELSE "commit"
  /\ UNCHANGED <<brokerVars, memberVars, readOffSet, logOffset, rc, bExit,
                 argVars, counters>>

\* main after Read: print a message, wait on after a time-out in wait mode,
\* otherwise leave the loop.
Returned ==
  /\ pc = "returned"
  /\ printed' = [p \in Partitions |->
                   printed[p] \cup {m[2] : m \in {n \in kmsg : n[1] = p}}]
  /\ kmsg' = {}
  /\ pc' = IF rc = "ok" \/ (rc = "timed_out" /\ waitMode) THEN "loop" ELSE "commit"
  /\ UNCHANGED <<brokerVars, memberVars, readOffSet, logOffset, rc, bExit,
                 argVars, counters>>

\* Variant: the positions of the last read-over check are committed.
CommitChecked ==
  /\ pc = "commit"
  /\ \/ /\ committed' = [p \in Partitions |->
             LET at == {i \in 1..Len(readOffSet) :
                          readOffSet[i][1] = p /\ readOffSet[i][2] # Invalid}
             IN  IF commit /\ at # {} THEN readOffSet[CHOOSE i \in at : TRUE][2]
                                      ELSE committed[p]]
        /\ UNCHANGED faults
     \/ commit /\ Fault /\ UNCHANGED committed
  /\ Leave
  /\ UNCHANGED <<log, fetchPos, readOffSet, logOffset, rc, bExit,
                 argVars, printed, rebalances, runs>>

\* CommitOffset, if asked for: commitSync() commits the position of every
\* assigned partition that has one, or fails, which is only reported; then main
\* returns and the destructor closes the consumer.
Commit ==
  /\ pc = "commit"
  /\ \/ /\ committed' = [p \in Partitions |->
                           IF commit /\ appPos[p] # Invalid THEN appPos[p]
                                                            ELSE committed[p]]
        /\ UNCHANGED faults
     \/ commit /\ Fault /\ UNCHANGED committed
  /\ Leave
  /\ UNCHANGED <<log, fetchPos, readOffSet, logOffset, rc, bExit,
                 argVars, printed, rebalances, runs>>

-----------------------------------------------------------------------------
Environment ==
  \/ \E p \in Partitions, k \in Keys \cup {NoKey} : Produce(p, k)
  \/ Revoke \/ Assign
  \/ \E p \in Partitions, n \in 1..MaxLen : PeerCommit(p, n)
  \/ Interrupt \/ Crash

\* The steps the program takes by itself once it runs.
Program ==
  \/ Loop \/ FillRead \/ FillLog \/ QueryWatermark
  \/ \E p \in Partitions : Consume(p)
  \/ ConsumeTimedOut \/ HandleMessage \/ CheckReadEnd \/ Returned \/ Commit

Next == Environment \/ Start \/ ConsumeError \/ Program

Spec == Init /\ [][Next]_vars

\* The program keeps running, and a message the broker holds for an assigned
\* partition is handed over by one of the consume() calls that ask for it.
Fairness == WF_vars(Program) /\ \A p \in Partitions : SF_vars(Consume(p))

\* The group gives the member partitions, again after it took them away.  Strong:
\* the model holds an assignment off while the program is at "fillLog".
GroupFairness == SF_vars(Assign)

LiveSpec == Spec /\ Fairness /\ GroupFairness
LoneSpec == Spec /\ Fairness
-----------------------------------------------------------------------------
(* Properties *)

\* The variables keep their types: positions and offsets within the log, at
\* most one message in hand, m_readOffSet and m_logOffset lists of partitions.
TypeOK ==
  /\ log \in [Partitions -> Seq(Keys \cup {NoKey})]
  /\ \A p \in Partitions : Len(log[p]) <= MaxLen
  /\ committed \in [Partitions -> Nat] /\ fetchPos \in [Partitions -> Nat]
  /\ appPos \in [Partitions -> Nat \cup {Invalid}]
  /\ assigned \in Seq(Partitions)
  /\ readOffSet \in Seq(Partitions \X (Nat \cup {Invalid}))
  /\ logOffset \in Seq(Partitions \X (Nat \cup {Invalid}))
  /\ kmsg \subseteq Partitions \X Nat
  /\ rc \in {"ok", "timed_out", "fail", "eof", "unknown_partition"}
  /\ pc \in {"exited", "loop", "fillRead", "fillLog", "query", "consume",
             "timedOut", "message", "returned", "commit"}
  /\ bExit \in BOOLEAN /\ waitMode \in BOOLEAN /\ commit \in BOOLEAN
  /\ filterKeys \subseteq Keys
  /\ printed \in [Partitions -> SUBSET Nat]
  /\ rebalances \in Nat /\ faults \in Nat /\ runs \in Nat

\* Committing (CommitOffset after the loop of main) never skips a message: all
\* that the filter selects below the committed offset has been printed, by
\* this program or by the member that committed it, whatever was interrupted,
\* killed or rebalanced on the way.
CommittedCovered == \A p \in Partitions : Covered(p, committed[p])

\* The positions behind CommittedCovered.  Of an assigned partition, everything
\* already handed over has been printed, filtered out, or is in hand; nothing is
\* in hand when CommitOffset takes the positions; and a partition that is not
\* assigned has no position to commit.
PositionsCovered ==
  /\ \A p \in Owned :
       /\ appPos[p] \in {Invalid, fetchPos[p]}
       /\ committed[p] <= fetchPos[p]
       /\ \A o \in 0..(fetchPos[p] - 1) :
            Wanted(KeyAt(p, o)) => o \in printed[p] \/ <<p, o>> \in kmsg
  /\ \A p \in Partitions :
       /\ p \notin Owned => appPos[p] = Invalid
       /\ committed[p] <= Len(log[p]) /\ fetchPos[p] <= Len(log[p])

\* What the program has in hand at each point of Read and main.
InHand ==
  /\ kmsg # {} => \/ pc \in {"message", "fillRead", "fillLog", "query"}
                  \/ pc = "returned" /\ rc = "ok"
  /\ \A m \in kmsg, n \in kmsg : m = n
  /\ \A m \in kmsg : m[2] < Len(log[m[1]])

\* The invariant the proofs use.
DeliveryInv == CommittedCovered /\ PositionsCovered /\ InHand

\* Mode 0 ends with all the data it kept track of: once Read has answered
\* TIMED_OUT (line 186), every partition that was read from at all has been
\* printed up to the watermark recorded for it.
CaughtUpMeansPrinted ==
  ~waitMode /\ rc = "timed_out" =>
    \A i \in 1..Len(logOffset) :
      /\ i <= Len(readOffSet) /\ readOffSet[i][1] = logOffset[i][1]
      /\ readOffSet[i][2] # Invalid
      => Covered(logOffset[i][1], logOffset[i][2])

\* The group's offset of a partition never moves back, although a run that is
\* reassigned a partition starts again from the offset committed before.
CommittedMonotone == [][\A p \in Partitions : committed'[p] >= committed[p]]_vars

\* Everything else about delivery in one sentence: seen from its topic, its group
\* and its output, the program is an at-least-once reader of the messages its
\* filter selects, restarts, kills and other members included.
Delivery == INSTANCE AtLeastOnce WITH
  end <- [p \in Partitions |-> Len(log[p])],
  wanted <- [p \in Partitions |-> {o \in 0..(Len(log[p]) - 1) : Wanted(KeyAt(p, o))}],
  shown <- printed
ReadsAtLeastOnce == Delivery!Spec

\* "0: Exit after obtaining the current all data": a run without -m 1 ends.
ReadingEnds == (Running /\ ~waitMode) ~> ~Running

\* "1: Keep reading data": as long as the program runs and keeps partition p,
\* every message of p that the filter selects is printed.
WaitModeDelivers ==
  \A p \in Partitions, o \in 0..(MaxLen - 1) :
    <>[](Running /\ p \in Owned) =>
      ((o < Len(log[p]) /\ Wanted(KeyAt(p, o))) ~> (o \in printed[p]))

-----------------------------------------------------------------------------
(* What the usage text and the comments say, and the code does not do *)

\* binlogdumpK.cpp:48, "0: Exit after obtaining the current all data": when Read
\* reports the end, every message below the watermarks has been printed.
ExitHasAllData ==
  ~waitMode /\ rc = "timed_out" =>
    \A i \in 1..Len(logOffset) : Covered(logOffset[i][1], logOffset[i][2])

\* CBinlogKafka.h:24-25, "@return: 0 -success same as RdKafka::ErrorCode": the
\* read-over check either goes on or lets Read return a code.
ReadAnswers ==
  [][pc = "timedOut" /\ UNCHANGED faults => pc' \in {"timedOut", "consume", "returned"}]_vars

\* binlogdumpK.cpp:49, "1: Keep reading data until manual termination (Ctrl +
\* c)": with -m 1 the program ends after Ctrl-C.
InterruptEnds == (waitMode /\ bExit) ~> ~Running
=============================================================================
