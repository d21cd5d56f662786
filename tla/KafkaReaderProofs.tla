------------------------- MODULE KafkaReaderProofs --------------------------
(***************************************************************************)
(* What KafkaReader promises for every number of partitions, keys, faults, *)
(* rebalances and runs: its types, that no committed offset ever lies      *)
(* beyond a message the arguments asked for and nobody printed, that a run *)
(* told TIMED_OUT has printed what it tracked, and that the program        *)
(* implements AtLeastOnce.                                                 *)
(***************************************************************************)
EXTENDS KafkaReader, SequenceTheorems, TLAPS

Codes == {"ok", "timed_out", "fail", "eof", "unknown_partition"}
Places == {"exited", "loop", "fillRead", "fillLog", "query", "consume",
           "timedOut", "message", "returned", "commit"}
Offsets == Nat \cup {Invalid}

\* A function over 1..n with values in S is a sequence over S: the partition
\* lists that assignment() and position() build.
LEMMA ListIsSeq ==
  ASSUME NEW S, NEW n \in Nat, NEW f \in [1..n -> S]
  PROVE  f \in Seq(S) /\ Len(f) = n
  BY SeqDef

\* The list assignment() returns (lines 112 and 118) names partitions, and none
\* has an offset yet.
LEMMA AssignmentListType ==
  ASSUME assigned \in Seq(Partitions)
  PROVE  AssignmentList \in Seq(Partitions \X Offsets)
  <1>1. Len(assigned) \in Nat  BY LenProperties
  <1>2. \A i \in 1..Len(assigned) : assigned[i] \in Partitions  BY ElementOfSeq
  <1>3. AssignmentList \in [1..Len(assigned) -> Partitions \X Offsets]
    BY <1>2 DEF AssignmentList, Offsets
  <1> QED  BY <1>1, <1>3, ListIsSeq

\* position() (line 164) keeps the partitions and gives each an offset.
LEMMA PositionsType ==
  ASSUME readOffSet \in Seq(Partitions \X Offsets), appPos \in [Partitions -> Offsets]
  PROVE  Positions \in Seq(Partitions \X Offsets)
  <1>1. Len(readOffSet) \in Nat  BY LenProperties
  <1>2. \A i \in 1..Len(readOffSet) : readOffSet[i] \in Partitions \X Offsets
    BY ElementOfSeq
  <1>3. Positions \in [1..Len(readOffSet) -> Partitions \X Offsets]
    BY <1>2 DEF Positions
  <1> QED  BY <1>1, <1>3, ListIsSeq

\* Every step of the reader, of main and of their environment keeps the types.
LEMMA TypeStep == TypeOK /\ [Next]_vars => TypeOK'
  <1> SUFFICES ASSUME TypeOK, [Next]_vars PROVE TypeOK'
    OBVIOUS
  <1> USE ReaderAssumption
  <1>1. ASSUME NEW p \in Partitions, NEW k \in Keys \cup {NoKey}, Produce(p, k)
        PROVE  TypeOK'
    <2>1. log \in [Partitions -> Seq(Keys \cup {NoKey})] BY DEF TypeOK
    <2>2. Append(log[p], k) \in Seq(Keys \cup {NoKey}) /\ Len(Append(log[p], k)) = Len(log[p]) + 1
      BY <2>1, AppendProperties
    <2>3. Len(log[p]) \in Nat BY <2>1, LenProperties
    <2>6. log' = [log EXCEPT ![p] = Append(@, k)] /\ Len(log[p]) < MaxLen BY <1>1 DEF Produce
    <2>4. log' \in [Partitions -> Seq(Keys \cup {NoKey})] BY <2>1, <2>2, <2>6
    <2>5. \A q \in Partitions : Len(log'[q]) <= MaxLen
      <3>1. \A q \in Partitions : Len(log[q]) <= MaxLen BY DEF TypeOK
      <3>2. Len(log'[p]) <= MaxLen BY <2>1, <2>2, <2>3, <2>6
      <3>3. \A q \in Partitions \ {p} : log'[q] = log[q] BY <2>1, <2>6
      <3> QED BY <3>1, <3>2, <3>3
    <2> QED BY <1>1, <2>4, <2>5 DEF Produce, TypeOK, memberVars, readerVars, argVars, counters
  <1>2. CASE Revoke
    <2>1. assigned' \in Seq(Partitions) BY <1>2, EmptySeq DEF Revoke
    <2>2. appPos' \in [Partitions -> Offsets] BY <1>2 DEF Revoke, Untouched, Offsets
    <2>3. rebalances' \in Nat
      <3>1. rebalances \in Nat BY DEF TypeOK
      <3> QED BY <1>2, <3>1 DEF Revoke
    <2> QED BY <1>2, <2>1, <2>2, <2>3 DEF Revoke, TypeOK, Offsets, brokerVars, readerVars, argVars
  <1>3. CASE Assign
    <2>1. assigned' \in Seq(Partitions) BY <1>3 DEF Assign
    <2> QED BY <1>3, <2>1 DEF Assign, TypeOK, brokerVars, readerVars, argVars, counters
  <1>4. ASSUME NEW p \in Partitions, NEW n \in 1..MaxLen, PeerCommit(p, n)
        PROVE  TypeOK'
    <2>2. committed \in [Partitions -> Nat] BY DEF TypeOK
    <2>1. committed[p]..(n - 1) \subseteq Nat BY <2>2
    <2>3. committed' \in [Partitions -> Nat] BY <1>4, <2>2 DEF PeerCommit
    <2>4. printed' \in [Partitions -> SUBSET Nat]
      <3>1. printed \in [Partitions -> SUBSET Nat] BY DEF TypeOK
      <3>2. printed[p] \cup committed[p]..(n - 1) \in SUBSET Nat BY <2>1, <3>1
      <3> QED BY <1>4, <3>1, <3>2 DEF PeerCommit
    <2> QED BY <1>4, <2>3, <2>4 DEF PeerCommit, TypeOK, memberVars, readerVars, argVars, counters
  <1>5. CASE Interrupt
    BY <1>5 DEF Interrupt, TypeOK, brokerVars, memberVars, argVars, counters
  <1>6. CASE Crash
    BY <1>6 DEF Crash, Leave, Fault, TypeOK, Untouched, brokerVars, argVars
  <1>7. CASE Start
    <2>1. pc' \in {"loop", "exited"} /\ faults' \in Nat
      BY <1>7 DEF Start, Fault, TypeOK
    <2>2. /\ readOffSet' \in Seq(Partitions \X Offsets)
          /\ logOffset' \in Seq(Partitions \X Offsets)
      BY <1>7, EmptySeq DEF Start
    <2>3. kmsg' \subseteq Partitions \X Nat /\ rc' = "ok" /\ bExit' = FALSE /\ runs' \in Nat
      BY <1>7 DEF Start, TypeOK
    <2>4. UNCHANGED <<brokerVars, memberVars, argVars, printed, rebalances>>
      BY <1>7 DEF Start
    <2> QED BY <2>1, <2>2, <2>3, <2>4 DEF TypeOK, Offsets, brokerVars, memberVars, argVars
  <1>8. CASE Loop
    BY <1>8 DEF Loop, TypeOK, brokerVars, memberVars, argVars, counters
  <1>9. CASE FillRead
    <2>1. AssignmentList \in Seq(Partitions \X Offsets) BY AssignmentListType DEF TypeOK
    <2>2. AfterFill \in Places BY DEF AfterFill, Places
    <2>3. pc' \in Places /\ faults' \in Nat
      BY <1>9, <2>2 DEF FillRead, Fault, TypeOK, Places
    <2>4. readOffSet' \in Seq(Partitions \X Offsets)
      BY <1>9, <2>1 DEF FillRead, TypeOK, Offsets
    <2> QED BY <1>9, <2>3, <2>4
            DEF FillRead, TypeOK, Places, Offsets, brokerVars, memberVars, argVars
  <1>10. CASE FillLog
    <2>1. AssignmentList \in Seq(Partitions \X Offsets) BY AssignmentListType DEF TypeOK
    <2>2. AfterFill \in Places BY DEF AfterFill, Places
    <2>3. pc' \in Places /\ faults' \in Nat
      BY <1>10, <2>2 DEF FillLog, Fault, TypeOK, Places
    <2>4. logOffset' \in Seq(Partitions \X Offsets)
      BY <1>10, <2>1 DEF FillLog, TypeOK, Offsets
    <2> QED BY <1>10, <2>3, <2>4
            DEF FillLog, TypeOK, Places, Offsets, brokerVars, memberVars, argVars
  <1>11. CASE QueryWatermark
    <2>1. AfterFill \in Places BY DEF AfterFill, Places
    <2>2. ASSUME NEW i \in 1..Len(logOffset),
                 logOffset' = [logOffset EXCEPT ![i] =
                                <<logOffset[i][1], Len(log[logOffset[i][1]])>>]
          PROVE  logOffset' \in Seq(Partitions \X Offsets)
      <3>1. logOffset \in Seq(Partitions \X Offsets) BY DEF TypeOK, Offsets
      <3>2. logOffset[i] \in Partitions \X Offsets BY <3>1, ElementOfSeq
      <3>3. log[logOffset[i][1]] \in Seq(Keys \cup {NoKey}) BY <3>2 DEF TypeOK
      <3>5. Len(log[logOffset[i][1]]) \in Offsets BY <3>3, LenProperties DEF Offsets
      <3>4. <<logOffset[i][1], Len(log[logOffset[i][1]])>> \in Partitions \X Offsets
        BY <3>2, <3>5
      <3> QED BY <2>2, <3>1, <3>4, ExceptSeq
    <2>3. logOffset' \in Seq(Partitions \X Offsets)
      BY <1>11, <2>2 DEF QueryWatermark, TypeOK, Offsets
    <2>4. pc' \in Places /\ faults' \in Nat
      BY <1>11, <2>1 DEF QueryWatermark, Fault, TypeOK, Places
    <2> QED BY <1>11, <2>3, <2>4
            DEF QueryWatermark, TypeOK, Places, Offsets, brokerVars, memberVars, argVars
  <1>12. ASSUME NEW p \in Partitions, Consume(p)
         PROVE  TypeOK'
    <2>1. fetchPos \in [Partitions -> Nat] /\ appPos \in [Partitions -> Offsets]
      BY DEF TypeOK, Offsets
    <2>2. fetchPos[p] \in Nat /\ fetchPos[p] + 1 \in Nat
      <3>1. fetchPos[p] \in Nat BY <2>1
      <3> QED BY <3>1
    <2>3. fetchPos' \in [Partitions -> Nat] BY <1>12, <2>1, <2>2 DEF Consume
    <2>4. appPos' \in [Partitions -> Offsets] BY <1>12, <2>1, <2>2 DEF Consume, Offsets
    <2>5. kmsg' \subseteq Partitions \X Nat BY <1>12, <2>2 DEF Consume
    <2>6. pc' \in Places BY <1>12 DEF Consume, Places
    <2> QED BY <1>12, <2>3, <2>4, <2>5, <2>6
            DEF Consume, TypeOK, Places, Offsets, brokerVars, argVars, counters
  <1>13. CASE ConsumeTimedOut
    BY <1>13 DEF ConsumeTimedOut, TypeOK, brokerVars, memberVars, argVars, counters
  <1>14. CASE ConsumeError
    BY <1>14 DEF ConsumeError, Fault, TypeOK, brokerVars, memberVars, argVars
  <1>15. CASE HandleMessage
    BY <1>15 DEF HandleMessage, TypeOK, brokerVars, memberVars, argVars, counters
  <1>16. CASE CheckReadEnd
    <2>1. Positions \in Seq(Partitions \X Offsets)
      BY PositionsType DEF TypeOK, Offsets
    <2>2. readOffSet' \in Seq(Partitions \X Offsets)
      BY <1>16, <2>1 DEF CheckReadEnd, TypeOK, Offsets
    <2>3. Untouched \in [Partitions -> Offsets] BY DEF Untouched, Offsets
    <2>4. \/ pc' \in {"consume", "returned"} /\ rc' \in {rc, "timed_out", "fail"}
             /\ UNCHANGED <<kmsg, assigned, appPos>>
          \/ Leave /\ UNCHANGED rc
      BY <1>16 DEF CheckReadEnd
    <2>5. faults' \in Nat BY <1>16 DEF CheckReadEnd, Fault, TypeOK
    <2>6. pc' \in Places /\ rc' \in Codes
      BY <2>4 DEF Leave, TypeOK, Places, Codes
    <2>7. kmsg' \subseteq Partitions \X Nat
      BY <2>4 DEF Leave, TypeOK
    <2>8. assigned' \in Seq(Partitions)
      BY <2>4, EmptySeq DEF Leave, TypeOK
    <2>9. appPos' \in [Partitions -> Offsets]
      BY <2>3, <2>4 DEF Leave, TypeOK, Offsets
    <2> QED BY <1>16, <2>2, <2>5, <2>6, <2>7, <2>8, <2>9
            DEF CheckReadEnd, TypeOK, Places, Codes, Offsets, brokerVars, argVars
  <1>17. CASE Returned
    <2>1. \A p \in Partitions : {m[2] : m \in {n \in kmsg : n[1] = p}} \subseteq Nat
      BY DEF TypeOK
    <2>2. printed' \in [Partitions -> SUBSET Nat] BY <1>17, <2>1 DEF Returned, TypeOK
    <2> QED BY <1>17, <2>2 DEF Returned, TypeOK, brokerVars, memberVars, argVars, counters
  <1>18. CASE Commit
    <2>1. committed' \in [Partitions -> Nat]
      BY <1>18 DEF Commit, Fault, TypeOK
    <2>2. faults' \in Nat
      <3>1. faults \in Nat BY DEF TypeOK
      <3> QED BY <1>18, <3>1 DEF Commit, Fault
    <2>3. assigned' \in Seq(Partitions) BY <1>18, EmptySeq DEF Commit, Leave
    <2>4. appPos' \in [Partitions -> Offsets] BY <1>18 DEF Commit, Leave, Untouched, Offsets
    <2>5. /\ UNCHANGED <<log, fetchPos, readOffSet, logOffset, rc, bExit, argVars, printed,
                         rebalances, runs>>
          /\ pc' = "exited" /\ kmsg' = {}
      BY <1>18 DEF Commit, Leave
    <2> QED BY <2>1, <2>2, <2>3, <2>4, <2>5 DEF TypeOK, Offsets, argVars
  <1>19. CASE UNCHANGED vars
    <2>1. UNCHANGED <<log, committed, assigned, fetchPos, appPos, readOffSet, logOffset, kmsg, rc,
                      pc, bExit, waitMode, commit, filterKeys, printed, rebalances, faults, runs>>
      BY <1>19 DEF vars, brokerVars, memberVars, readerVars, argVars, counters
    <2> QED BY <2>1 DEF TypeOK
  <1> QED
    BY <1>1, <1>2, <1>3, <1>4, <1>5, <1>6, <1>7, <1>8, <1>9, <1>10, <1>11, <1>12,
       <1>13, <1>14, <1>15, <1>16, <1>17, <1>18, <1>19 DEF Next, Environment, Program

\* Init has the types.
LEMMA TypeInit == Init => TypeOK
  <1> SUFFICES ASSUME Init PROVE TypeOK
    OBVIOUS
  <1>1. Untouched \in [Partitions -> Offsets] BY DEF Untouched, Offsets
  <1>2. \A S : <<>> \in Seq(S) /\ Len(<<>>) = 0 BY EmptySeq
  <1>3. log \in [Partitions -> Seq(Keys \cup {NoKey})]
    BY <1>2 DEF Init
  <1>4. \A p \in Partitions : Len(log[p]) <= MaxLen
    <2>1. \A p \in Partitions : log[p] = <<>> BY DEF Init
    <2>2. Len(<<>>) = 0 OBVIOUS
    <2>3. 0 <= MaxLen BY ReaderAssumption
    <2> QED BY <2>1, <2>2, <2>3
  <1>5. assigned \in Seq(Partitions)
        /\ readOffSet \in Seq(Partitions \X Offsets) /\ logOffset \in Seq(Partitions \X Offsets)
    BY <1>2 DEF Init
  <1> QED BY <1>1, <1>3, <1>4, <1>5 DEF Init, TypeOK, Offsets

\* The types hold in every state of every run of the reader.
THEOREM TypeCorrect == Spec => []TypeOK
  <1>1. Init => TypeOK BY TypeInit
  <1>2. TypeOK /\ [Next]_vars => TypeOK' BY TypeStep
  <1> QED BY <1>1, <1>2, PTL DEF Spec

-----------------------------------------------------------------------------
(* Delivery: the invariant behind CommittedCovered *)

\* The program's place and result allow a message in hand.
MayHold == \/ pc \in {"message", "fillRead", "fillLog", "query"}
           \/ pc = "returned" /\ rc = "ok"

\* A step that touches neither the log, nor what was handed over, printed or
\* committed only has to respect where a message may be in hand.
LEMMA FrameStep ==
  ASSUME DeliveryInv, kmsg # {} => MayHold',
         UNCHANGED <<log, committed, printed, filterKeys, assigned, fetchPos, appPos, kmsg>>
  PROVE  DeliveryInv'
  <1>1. CommittedCovered'
    BY DEF DeliveryInv, CommittedCovered, Covered, Wanted, KeyAt
  <1>2. PositionsCovered'
    BY DEF DeliveryInv, PositionsCovered, Wanted, KeyAt, Owned
  <1>3. InHand'
    BY DEF DeliveryInv, InHand, MayHold
  <1> QED BY <1>1, <1>2, <1>3 DEF DeliveryInv

\* Where the process ends, what it held counts for nothing: what is left to
\* show is that the committed offsets are covered.
LEMMA LeaveStep ==
  ASSUME DeliveryInv, Leave, UNCHANGED <<log, printed, filterKeys, fetchPos>>,
         CommittedCovered',
         \A p \in Partitions : committed'[p] <= Len(log[p])
  PROVE  DeliveryInv'
  <1>1. Owned' = {} BY DEF Leave, Owned
  <1>2. PositionsCovered'
    BY <1>1 DEF DeliveryInv, PositionsCovered, Leave, Untouched
  <1>3. InHand' BY DEF Leave, InHand
  <1> QED BY <1>2, <1>3 DEF DeliveryInv

\* The process ends without a commit.
LEMMA LeaveUncommitted ==
  ASSUME DeliveryInv, Leave, UNCHANGED <<log, printed, filterKeys, fetchPos, committed>>
  PROVE  DeliveryInv'
  <1>1. CommittedCovered'
    BY DEF DeliveryInv, CommittedCovered, Covered, Wanted, KeyAt
  <1>2. \A p \in Partitions : committed'[p] <= Len(log[p])
    BY DEF DeliveryInv, PositionsCovered
  <1> QED BY <1>1, <1>2, LeaveStep

\* Assigned partitions are partitions.
LEMMA OwnedArePartitions == TypeOK => Owned \subseteq Partitions
  <1> SUFFICES ASSUME TypeOK, NEW i \in 1..Len(assigned) PROVE assigned[i] \in Partitions
    BY DEF Owned
  <1>1. assigned \in Seq(Partitions) BY DEF TypeOK
  <1> QED BY <1>1, ElementOfSeq

\* No partition is committed or fetched beyond its end.
LEMMA PositionsInLog ==
  ASSUME TypeOK, DeliveryInv, NEW p \in Partitions
  PROVE  /\ committed[p] \in Nat /\ fetchPos[p] \in Nat /\ Len(log[p]) \in Nat
         /\ committed[p] <= Len(log[p]) /\ fetchPos[p] <= Len(log[p])
  <1>1. committed \in [Partitions -> Nat] /\ fetchPos \in [Partitions -> Nat] BY DEF TypeOK
  <1>2. log[p] \in Seq(Keys \cup {NoKey}) BY DEF TypeOK
  <1>3. committed[p] <= Len(log[p]) /\ fetchPos[p] <= Len(log[p])
    BY DEF DeliveryInv, PositionsCovered
  <1> QED BY <1>1, <1>2, <1>3, LenProperties

\* A new message changes no key and no offset of the messages before it.
LEMMA ProduceStep ==
  ASSUME TypeOK, DeliveryInv, NEW p \in Partitions, NEW k \in Keys \cup {NoKey},
         Produce(p, k)
  PROVE  DeliveryInv'
  <1>1. /\ log' = [log EXCEPT ![p] = Append(@, k)]
        /\ UNCHANGED <<committed, printed, filterKeys, assigned, fetchPos, appPos, kmsg, pc, rc>>
    BY DEF Produce, memberVars, readerVars, argVars
  <1>2. \A q \in Partitions :
          /\ Len(log[q]) \in Nat /\ Len(log'[q]) \in Nat /\ Len(log[q]) <= Len(log'[q])
          /\ \A o \in 0..(Len(log[q]) - 1) : log'[q][o + 1] = log[q][o + 1]
    <2> SUFFICES ASSUME NEW q \in Partitions
                 PROVE  /\ Len(log[q]) \in Nat /\ Len(log'[q]) \in Nat
                        /\ Len(log[q]) <= Len(log'[q])
                        /\ \A o \in 0..(Len(log[q]) - 1) : log'[q][o + 1] = log[q][o + 1]
      OBVIOUS
    <2>0. log \in [Partitions -> Seq(Keys \cup {NoKey})] BY DEF TypeOK
    <2>1. log[q] \in Seq(Keys \cup {NoKey}) /\ Len(log[q]) \in Nat BY <2>0, LenProperties
    <2>2. log'[q] = IF q = p THEN Append(log[q], k) ELSE log[q]
      BY <1>1, <2>0
    <2>3. CASE q = p
      <3>1. /\ Len(Append(log[q], k)) = Len(log[q]) + 1
            /\ \A i \in 1..Len(log[q]) : Append(log[q], k)[i] = log[q][i]
        BY <2>1, AppendProperties
      <3> QED BY <2>1, <2>2, <2>3, <3>1
    <2>4. CASE q # p BY <2>1, <2>2, <2>4
    <2> QED BY <2>3, <2>4
  <1>3. CommittedCovered'
    <2> SUFFICES ASSUME NEW q \in Partitions, NEW o \in 0..(committed[q] - 1), Wanted(KeyAt(q, o))'
                 PROVE  o \in printed[q]
      BY <1>1 DEF CommittedCovered, Covered
    <2>1. o \in 0..(Len(log[q]) - 1) BY PositionsInLog
    <2>2. Wanted(KeyAt(q, o)) BY <1>1, <1>2, <2>1 DEF Wanted, KeyAt
    <2> QED BY <2>2 DEF DeliveryInv, CommittedCovered, Covered
  <1>4. PositionsCovered'
    <2>1. \A q \in Owned' :
            /\ appPos'[q] \in {Invalid, fetchPos'[q]}
            /\ committed'[q] <= fetchPos'[q]
      BY <1>1 DEF DeliveryInv, PositionsCovered, Owned
    <2>2. ASSUME NEW q \in Owned, NEW o \in 0..(fetchPos[q] - 1), Wanted(KeyAt(q, o))'
          PROVE  o \in printed[q] \/ <<q, o>> \in kmsg
      <3>1. q \in Partitions BY OwnedArePartitions
      <3>2. o \in 0..(Len(log[q]) - 1) BY <3>1, PositionsInLog
      <3>3. Wanted(KeyAt(q, o)) BY <2>2, <1>1, <1>2, <3>1, <3>2 DEF Wanted, KeyAt
      <3> QED BY <3>3 DEF DeliveryInv, PositionsCovered
    <2>3. \A q \in Partitions :
            /\ q \notin Owned' => appPos'[q] = Invalid
            /\ committed'[q] <= Len(log'[q]) /\ fetchPos'[q] <= Len(log'[q])
      <3> SUFFICES ASSUME NEW q \in Partitions
                   PROVE  /\ q \notin Owned => appPos[q] = Invalid
                          /\ committed[q] <= Len(log'[q]) /\ fetchPos[q] <= Len(log'[q])
        BY <1>1 DEF Owned
      <3> QED BY <1>2, PositionsInLog DEF DeliveryInv, PositionsCovered
    <2> QED BY <1>1, <2>1, <2>2, <2>3 DEF PositionsCovered, Owned
  <1>5. InHand'
    <2>1. ASSUME NEW m \in kmsg PROVE m[2] < Len(log'[m[1]])
      <3>1. m[1] \in Partitions /\ m[2] \in Nat BY DEF TypeOK
      <3>2. m[2] < Len(log[m[1]]) BY DEF DeliveryInv, InHand
      <3> QED BY <1>2, <3>1, <3>2
    <2> QED BY <1>1, <2>1 DEF DeliveryInv, InHand
  <1> QED BY <1>3, <1>4, <1>5 DEF DeliveryInv

\* Nothing is assigned before Assign, so nothing has a position; afterwards each
\* partition starts at its committed offset, below which all is covered.
LEMMA AssignStep ==
  ASSUME TypeOK, DeliveryInv, Assign
  PROVE  DeliveryInv'
  <1>1. /\ fetchPos' = committed
        /\ UNCHANGED <<log, committed, printed, filterKeys, appPos, kmsg, pc, rc>>
    BY DEF Assign, brokerVars, readerVars, argVars
  <1>2. Owned = {} BY DEF Assign, Owned
  <1>3. \A q \in Partitions : appPos[q] = Invalid
    BY <1>2 DEF DeliveryInv, PositionsCovered
  <1>4. Owned' \subseteq Partitions
    <2>1. assigned' \in Seq(Partitions) BY ReaderAssumption DEF Assign
    <2> QED BY <2>1, ElementOfSeq DEF Owned
  <1>5. CommittedCovered'
    BY <1>1 DEF DeliveryInv, CommittedCovered, Covered, Wanted, KeyAt
  <1>6. PositionsCovered'
    <2>1. \A q \in Partitions :
            /\ committed[q] \in Nat /\ committed[q] <= Len(log[q])
            /\ \A o \in 0..(committed[q] - 1) : Wanted(KeyAt(q, o)) => o \in printed[q]
      BY DEF DeliveryInv, PositionsCovered, CommittedCovered, Covered, TypeOK
    <2> QED BY <1>1, <1>3, <1>4, <2>1 DEF PositionsCovered, Wanted, KeyAt
  <1>7. InHand' BY <1>1 DEF DeliveryInv, InHand
  <1> QED BY <1>5, <1>6, <1>7 DEF DeliveryInv

\* A revocation takes the positions with it.
LEMMA RevokeStep ==
  ASSUME DeliveryInv, Revoke
  PROVE  DeliveryInv'
  <1>1. /\ assigned' = <<>> /\ appPos' = Untouched
        /\ UNCHANGED <<log, committed, printed, filterKeys, fetchPos, kmsg, pc, rc>>
    BY DEF Revoke, brokerVars, readerVars, argVars
  <1>2. Owned' = {} BY <1>1 DEF Owned
  <1>3. CommittedCovered'
    BY <1>1 DEF DeliveryInv, CommittedCovered, Covered, Wanted, KeyAt
  <1>4. PositionsCovered'
    BY <1>1, <1>2 DEF DeliveryInv, PositionsCovered, Untouched
  <1>5. InHand' BY <1>1 DEF DeliveryInv, InHand
  <1> QED BY <1>3, <1>4, <1>5 DEF DeliveryInv

\* Another member commits what it printed, and only of partitions this one is
\* not assigned.
LEMMA PeerCommitStep ==
  ASSUME TypeOK, DeliveryInv, NEW p \in Partitions, NEW n \in 1..MaxLen, PeerCommit(p, n)
  PROVE  DeliveryInv'
  <1>1. /\ p \notin Owned /\ committed[p] < n /\ n <= Len(log[p])
        /\ printed' = [printed EXCEPT ![p] = @ \cup committed[p]..(n - 1)]
        /\ committed' = [committed EXCEPT ![p] = n]
        /\ UNCHANGED <<log, filterKeys, assigned, fetchPos, appPos, kmsg, pc, rc>>
    BY DEF PeerCommit, memberVars, readerVars, argVars
  <1>2. \A q \in Partitions :
          /\ committed'[q] = IF q = p THEN n ELSE committed[q]
          /\ printed'[q] = IF q = p THEN printed[q] \cup committed[p]..(n - 1) ELSE printed[q]
    BY <1>1 DEF TypeOK
  <1>3. CommittedCovered'
    <2> SUFFICES ASSUME NEW q \in Partitions, NEW o \in 0..(committed'[q] - 1), Wanted(KeyAt(q, o))
                 PROVE  o \in printed'[q]
      BY <1>1 DEF CommittedCovered, Covered, Wanted, KeyAt
    <2>1. committed[q] \in Nat /\ n \in Nat BY DEF TypeOK
    <2>2. o \in 0..(committed[q] - 1) => o \in printed[q]
      BY DEF DeliveryInv, CommittedCovered, Covered
    <2>3. CASE q # p
      <3>1. committed'[q] = committed[q] /\ printed'[q] = printed[q] BY <1>2, <2>3
      <3> QED BY <2>2, <3>1
    <2>4. CASE q = p
      <3>1. /\ committed'[p] = n
            /\ printed'[p] = printed[p] \cup committed[p]..(n - 1)
        BY <1>2
      <3>2. o \in 0..(n - 1) BY <2>4, <3>1
      <3>3. o \in 0..(committed[p] - 1) \/ o \in committed[p]..(n - 1)
        BY <2>1, <2>4, <3>2
      <3> QED BY <2>2, <2>4, <3>1, <3>3
    <2> QED BY <2>3, <2>4
  <1>4. PositionsCovered'
    <2>1. \A q \in Owned : q # p /\ q \in Partitions BY <1>1, OwnedArePartitions
    <2>2. \A q \in Partitions : committed'[q] <= Len(log[q])
      BY <1>1, <1>2 DEF DeliveryInv, PositionsCovered
    <2> QED BY <1>1, <1>2, <2>1, <2>2 DEF DeliveryInv, PositionsCovered, Owned, Wanted, KeyAt
  <1>5. InHand' BY <1>1 DEF DeliveryInv, InHand
  <1> QED BY <1>3, <1>4, <1>5 DEF DeliveryInv

\* The message consume() hands over is in hand; what was handed over before is
\* covered, since nothing was in hand.
LEMMA ConsumeStep ==
  ASSUME TypeOK, DeliveryInv, NEW p \in Partitions, Consume(p)
  PROVE  DeliveryInv'
  <1>1. /\ pc = "consume" /\ p \in Owned /\ fetchPos[p] < Len(log[p])
        /\ kmsg' = {<<p, fetchPos[p]>>}
        /\ fetchPos' = [fetchPos EXCEPT ![p] = @ + 1]
        /\ appPos' = [appPos EXCEPT ![p] = fetchPos[p] + 1]
        /\ pc' \in {"fillRead", "message"}
        /\ UNCHANGED <<log, committed, printed, filterKeys, assigned, rc>>
    BY DEF Consume, brokerVars, argVars
  <1>2. kmsg = {} BY <1>1 DEF DeliveryInv, InHand
  <1>3. \A q \in Partitions :
          /\ fetchPos[q] \in Nat /\ committed[q] \in Nat /\ Len(log[q]) \in Nat
          /\ fetchPos'[q] = IF q = p THEN fetchPos[q] + 1 ELSE fetchPos[q]
          /\ appPos'[q] = IF q = p THEN fetchPos[q] + 1 ELSE appPos[q]
    BY <1>1, LenProperties DEF TypeOK
  <1>4. CommittedCovered'
    BY <1>1 DEF DeliveryInv, CommittedCovered, Covered, Wanted, KeyAt
  <1>5. PositionsCovered'
    <2>1. \A q \in Owned : q \in Partitions BY OwnedArePartitions
    <2>2. ASSUME NEW q \in Owned, NEW o \in 0..(fetchPos'[q] - 1), Wanted(KeyAt(q, o))
          PROVE  o \in printed[q] \/ <<q, o>> \in kmsg'
      <3>1. CASE o \in 0..(fetchPos[q] - 1)
        BY <1>2, <2>2, <3>1 DEF DeliveryInv, PositionsCovered
      <3>2. CASE o \notin 0..(fetchPos[q] - 1)
        BY <1>1, <1>3, <2>1, <3>2
      <3> QED BY <3>1, <3>2
    <2>3. \A q \in Owned :
            /\ appPos'[q] \in {Invalid, fetchPos'[q]}
            /\ committed[q] <= fetchPos'[q]
      BY <1>3, <2>1 DEF DeliveryInv, PositionsCovered
    <2>4. \A q \in Partitions :
            /\ q \notin Owned => appPos'[q] = Invalid
            /\ committed[q] <= Len(log[q]) /\ fetchPos'[q] <= Len(log[q])
      BY <1>1, <1>3 DEF DeliveryInv, PositionsCovered
    <2> QED BY <1>1, <2>2, <2>3, <2>4 DEF PositionsCovered, Owned, Wanted, KeyAt
  <1>6. InHand' BY <1>1 DEF InHand
  <1> QED BY <1>4, <1>5, <1>6 DEF DeliveryInv

\* Only a message that is not wanted is dropped from the hand; a wanted one goes
\* to main with code 0.
LEMMA HandleStep ==
  ASSUME DeliveryInv, HandleMessage
  PROVE  DeliveryInv'
  <1>1. UNCHANGED <<log, committed, printed, filterKeys, assigned, fetchPos, appPos>>
    BY DEF HandleMessage, brokerVars, memberVars, argVars
  <1>2. PICK m \in kmsg :
          /\ kmsg' = IF Wanted(KeyAt(m[1], m[2])) THEN kmsg ELSE {}
          /\ Wanted(KeyAt(m[1], m[2])) => rc' = "ok" /\ pc' = "returned"
    BY DEF HandleMessage, Wanted
  <1>3. \A n \in kmsg : n = m BY DEF DeliveryInv, InHand
  <1>4. CommittedCovered'
    BY <1>1 DEF DeliveryInv, CommittedCovered, Covered, Wanted, KeyAt
  <1>5. PositionsCovered'
    <2>1. \A q, o : <<q, o>> \in kmsg /\ Wanted(KeyAt(q, o)) => <<q, o>> \in kmsg'
      <3> SUFFICES ASSUME NEW q, NEW o, <<q, o>> \in kmsg, Wanted(KeyAt(q, o))
                   PROVE  <<q, o>> \in kmsg'
        OBVIOUS
      <3>1. <<q, o>> = m BY <1>3
      <3>2. m[1] = q /\ m[2] = o BY <3>1
      <3> QED BY <1>2, <3>2
    <2> QED BY <1>1, <2>1 DEF DeliveryInv, PositionsCovered, Owned, Wanted, KeyAt
  <1>6. InHand'
    BY <1>1, <1>2 DEF DeliveryInv, InHand
  <1> QED BY <1>4, <1>5, <1>6 DEF DeliveryInv

\* main prints the message Read returned before anything else happens to it.
LEMMA ReturnedStep ==
  ASSUME TypeOK, DeliveryInv, Returned
  PROVE  DeliveryInv'
  <1>1. /\ printed' = [p \in Partitions |->
                         printed[p] \cup {m[2] : m \in {n \in kmsg : n[1] = p}}]
        /\ kmsg' = {}
        /\ UNCHANGED <<log, committed, filterKeys, assigned, fetchPos, appPos>>
    BY DEF Returned, brokerVars, memberVars, argVars
  <1>2. \A q \in Partitions : \A o :
          (o \in printed[q] \/ <<q, o>> \in kmsg) => o \in printed'[q]
    <2> SUFFICES ASSUME NEW q \in Partitions, NEW o, o \in printed[q] \/ <<q, o>> \in kmsg
                 PROVE  o \in printed'[q]
      OBVIOUS
    <2>1. printed'[q] = printed[q] \cup {m[2] : m \in {n \in kmsg : n[1] = q}}
      BY <1>1
    <2>2. ASSUME <<q, o>> \in kmsg PROVE o \in {m[2] : m \in {n \in kmsg : n[1] = q}}
      <3>1. <<q, o>> \in {n \in kmsg : n[1] = q} BY <2>2
      <3> QED BY <3>1
    <2> QED BY <2>1, <2>2
  <1>3. CommittedCovered'
    BY <1>1, <1>2 DEF DeliveryInv, CommittedCovered, Covered, Wanted, KeyAt
  <1>4. PositionsCovered'
    <2>1. \A q \in Owned : q \in Partitions BY OwnedArePartitions
    <2>2. ASSUME NEW q \in Owned, NEW o \in 0..(fetchPos[q] - 1), Wanted(KeyAt(q, o))
          PROVE  o \in printed'[q]
      <3>1. o \in printed[q] \/ <<q, o>> \in kmsg
        BY <2>2 DEF DeliveryInv, PositionsCovered
      <3> QED BY <1>2, <2>1, <3>1
    <2>3. /\ \A q \in Owned : appPos[q] \in {Invalid, fetchPos[q]} /\ committed[q] <= fetchPos[q]
          /\ \A q \in Partitions :
               /\ q \notin Owned => appPos[q] = Invalid
               /\ committed[q] <= Len(log[q]) /\ fetchPos[q] <= Len(log[q])
      BY DEF DeliveryInv, PositionsCovered
    <2>4. Owned' = Owned /\ \A q, o : Wanted(KeyAt(q, o))' = Wanted(KeyAt(q, o))
      BY <1>1 DEF Owned, Wanted, KeyAt
    <2>5. PositionsCovered' =
            /\ \A q \in Owned :
                 /\ appPos[q] \in {Invalid, fetchPos[q]}
                 /\ committed[q] <= fetchPos[q]
                 /\ \A o \in 0..(fetchPos[q] - 1) :
                      Wanted(KeyAt(q, o)) => o \in printed'[q] \/ <<q, o>> \in {}
            /\ \A q \in Partitions :
                 /\ q \notin Owned => appPos[q] = Invalid
                 /\ committed[q] <= Len(log[q]) /\ fetchPos[q] <= Len(log[q])
      BY <1>1, <2>4 DEF PositionsCovered
    <2> QED BY <2>2, <2>3, <2>5
  <1>5. InHand' BY <1>1 DEF InHand
  <1> QED BY <1>3, <1>4, <1>5 DEF DeliveryInv

\* CommitOffset commits positions with nothing in hand, so what lies below them
\* has been printed.
LEMMA CommitStep ==
  ASSUME TypeOK, DeliveryInv, Commit
  PROVE  DeliveryInv'
  <1>1. /\ pc = "commit" /\ Leave
        /\ UNCHANGED <<log, printed, filterKeys, fetchPos>>
    BY DEF Commit, argVars
  <1>2. kmsg = {} BY <1>1 DEF DeliveryInv, InHand
  <1>3. CASE UNCHANGED committed
    BY <1>1, <1>3, LeaveUncommitted
  <1>4. CASE committed' = [p \in Partitions |->
                             IF commit /\ appPos[p] # Invalid THEN appPos[p]
                                                              ELSE committed[p]]
    <2>1. ASSUME NEW p \in Partitions
          PROVE  /\ committed'[p] = committed[p] \/ (committed'[p] = fetchPos[p] /\ p \in Owned)
                 /\ committed'[p] <= Len(log[p])
      BY <1>4 DEF DeliveryInv, PositionsCovered
    <2>2. CommittedCovered'
      <3> SUFFICES ASSUME NEW p \in Partitions, NEW o \in 0..(committed'[p] - 1),
                          Wanted(KeyAt(p, o))
                   PROVE  o \in printed[p]
        BY <1>1 DEF CommittedCovered, Covered, Wanted, KeyAt
      <3>1. CASE committed'[p] = committed[p]
        BY <3>1 DEF DeliveryInv, CommittedCovered, Covered
      <3>2. CASE committed'[p] = fetchPos[p] /\ p \in Owned
        <4>1. o \in 0..(fetchPos[p] - 1) BY <3>2
        <4>2. o \in printed[p] \/ <<p, o>> \in kmsg
          BY <3>2, <4>1 DEF DeliveryInv, PositionsCovered
        <4> QED BY <1>2, <4>2
      <3> QED BY <2>1, <3>1, <3>2
    <2> QED BY <1>1, <2>1, <2>2, LeaveStep
  <1> QED BY <1>3, <1>4 DEF Commit

\* Every step keeps the delivery invariant.
LEMMA DeliveryStep == TypeOK /\ DeliveryInv /\ [Next]_vars => DeliveryInv'
  <1> SUFFICES ASSUME TypeOK, DeliveryInv, [Next]_vars PROVE DeliveryInv'
    OBVIOUS
  <1>h. kmsg # {} => MayHold BY DEF DeliveryInv, InHand, MayHold
  <1>1. ASSUME NEW p \in Partitions, NEW k \in Keys \cup {NoKey}, Produce(p, k)
        PROVE  DeliveryInv'
    BY <1>1, ProduceStep
  <1>2. CASE Revoke  BY <1>2, RevokeStep
  <1>3. CASE Assign  BY <1>3, AssignStep
  <1>4. ASSUME NEW p \in Partitions, NEW n \in 1..MaxLen, PeerCommit(p, n)
        PROVE  DeliveryInv'
    BY <1>4, PeerCommitStep
  <1>5. CASE Interrupt
    BY <1>h, <1>5, FrameStep DEF Interrupt, MayHold, brokerVars, memberVars, argVars
  <1>6. CASE Crash
    BY <1>6, LeaveUncommitted DEF Crash, brokerVars, argVars
  <1>7. CASE Start
    <2>1. kmsg = {} BY <1>7 DEF Start, Running, DeliveryInv, InHand
    <2> QED BY <1>7, <2>1, FrameStep DEF Start, brokerVars, memberVars, argVars
  <1>8. CASE Loop
    <2>1. kmsg = {} BY <1>8 DEF Loop, DeliveryInv, InHand
    <2> QED BY <1>8, <2>1, FrameStep DEF Loop, brokerVars, memberVars, argVars
  <1>9. CASE FillRead
    <2>1. kmsg # {} => AfterFill = "message" BY DEF AfterFill
    <2> QED BY <1>9, <2>1, FrameStep DEF FillRead, MayHold, brokerVars, memberVars, argVars
  <1>10. CASE FillLog
    <2>1. kmsg # {} => AfterFill = "message" BY DEF AfterFill
    <2> QED BY <1>10, <2>1, FrameStep DEF FillLog, MayHold, brokerVars, memberVars, argVars
  <1>11. CASE QueryWatermark
    <2>1. kmsg # {} => AfterFill = "message" BY DEF AfterFill
    <2>2. kmsg # {} => MayHold' BY <1>11, <2>1 DEF QueryWatermark, MayHold
    <2> QED BY <1>11, <2>2, FrameStep DEF QueryWatermark, brokerVars, memberVars, argVars
  <1>12. ASSUME NEW p \in Partitions, Consume(p)
         PROVE  DeliveryInv'
    BY <1>12, ConsumeStep
  <1>13. CASE ConsumeTimedOut
    <2>1. kmsg = {} BY <1>13 DEF ConsumeTimedOut, DeliveryInv, InHand
    <2> QED BY <1>13, <2>1, FrameStep DEF ConsumeTimedOut, brokerVars, memberVars, argVars
  <1>14. CASE ConsumeError
    <2>1. kmsg = {} BY <1>14 DEF ConsumeError, DeliveryInv, InHand
    <2> QED BY <1>14, <2>1, FrameStep DEF ConsumeError, brokerVars, memberVars, argVars
  <1>15. CASE HandleMessage  BY <1>15, HandleStep
  <1>16. CASE CheckReadEnd
    <2>1. kmsg = {} BY <1>16 DEF CheckReadEnd, DeliveryInv, InHand
    <2>2. \/ UNCHANGED <<kmsg, assigned, appPos>>
          \/ Leave
      BY <1>16 DEF CheckReadEnd
    <2>3. UNCHANGED <<log, committed, printed, filterKeys, fetchPos>>
      BY <1>16 DEF CheckReadEnd, brokerVars, argVars
    <2> QED BY <2>1, <2>2, <2>3, FrameStep, LeaveUncommitted
  <1>17. CASE Returned  BY <1>17, ReturnedStep
  <1>18. CASE Commit  BY <1>18, CommitStep
  <1>19. CASE UNCHANGED vars
    <2>1. UNCHANGED <<log, committed, printed, filterKeys, assigned, fetchPos, appPos, kmsg>>
          /\ UNCHANGED <<pc, rc>>
      BY <1>19 DEF vars, brokerVars, memberVars, readerVars, argVars
    <2> QED BY <1>h, <2>1, FrameStep DEF MayHold
  <1> QED
    BY <1>1, <1>2, <1>3, <1>4, <1>5, <1>6, <1>7, <1>8, <1>9, <1>10, <1>11, <1>12,
       <1>13, <1>14, <1>15, <1>16, <1>17, <1>18, <1>19 DEF Next, Environment, Program

\* Nothing is committed, assigned or in hand at the start.
LEMMA DeliveryInit == Init => DeliveryInv
  <1> SUFFICES ASSUME Init PROVE DeliveryInv
    OBVIOUS
  <1>1. CommittedCovered BY DEF Init, CommittedCovered, Covered
  <1>2. Owned = {} BY DEF Init, Owned
  <1>3. \A p \in Partitions : Len(log[p]) = 0
    <2>1. \A p \in Partitions : log[p] = <<>> BY DEF Init
    <2>2. Len(<<>>) = 0 OBVIOUS
    <2> QED BY <2>1, <2>2
  <1>4. PositionsCovered BY <1>2, <1>3 DEF Init, PositionsCovered, Untouched
  <1>5. InHand BY DEF Init, InHand
  <1> QED BY <1>1, <1>4, <1>5 DEF DeliveryInv

\* The delivery invariant holds in every state of every run of the reader.
THEOREM DeliveryCorrect == Spec => []DeliveryInv
  <1>1. Init => DeliveryInv BY DeliveryInit
  <1>2. TypeOK /\ DeliveryInv /\ [Next]_vars => DeliveryInv' BY DeliveryStep
  <1>3. Spec => []TypeOK BY TypeCorrect
  <1> QED BY <1>1, <1>2, <1>3, PTL DEF Spec

\* Whatever is interrupted, killed, failed or rebalanced, the committed offset
\* of a partition never lies beyond a message the arguments ask for and no
\* member printed.
THEOREM NothingSkipped == Spec => []CommittedCovered
  <1>1. DeliveryInv => CommittedCovered BY DEF DeliveryInv
  <1>2. Spec => []DeliveryInv BY DeliveryCorrect
  <1> QED BY <1>1, <1>2, PTL

\* A step never moves a committed offset back: a member commits only past the
\* offset its partition was committed to when it was assigned, and no other
\* member commits a partition it is assigned.
LEMMA ForwardStep ==
  ASSUME TypeOK, DeliveryInv, Next, NEW p \in Partitions
  PROVE  committed'[p] >= committed[p]
  <1>1. committed[p] \in Nat BY DEF TypeOK
  <1>2. CASE UNCHANGED committed  BY <1>1, <1>2
  <1>3. ASSUME NEW q \in Partitions, NEW n \in 1..MaxLen, PeerCommit(q, n)
        PROVE  committed'[p] >= committed[p]
    <2>1. committed'[p] = IF p = q THEN n ELSE committed[p]
      BY <1>3 DEF PeerCommit, TypeOK
    <2> QED BY <1>1, <1>3, <2>1 DEF PeerCommit
  <1>4. CASE Commit
    <2>1. appPos[p] # Invalid => appPos[p] >= committed[p] /\ p \in Owned
      BY <1>1 DEF DeliveryInv, PositionsCovered, TypeOK
    <2>2. committed'[p] \in {committed[p], appPos[p]}
          /\ (committed'[p] # committed[p] => appPos[p] # Invalid)
      BY <1>4 DEF Commit
    <2> QED BY <1>1, <2>1, <2>2
  <1>5. Next => \/ UNCHANGED committed \/ Commit
                \/ \E q \in Partitions, n \in 1..MaxLen : PeerCommit(q, n)
    BY DEF Next, Environment, Program, Produce, Revoke, Assign, Interrupt, Crash,
           Start, Loop, FillRead, FillLog, QueryWatermark, Consume, ConsumeTimedOut,
           ConsumeError, HandleMessage, CheckReadEnd, Returned, brokerVars
  <1> QED BY <1>2, <1>3, <1>4, <1>5

\* The committed offset of a partition never moves back.
THEOREM NeverBack == Spec => CommittedMonotone
  <1>1. TypeOK /\ DeliveryInv /\ [Next]_vars
          => [\A p \in Partitions : committed'[p] >= committed[p]]_vars
    BY ForwardStep
  <1> QED BY <1>1, TypeCorrect, DeliveryCorrect, PTL DEF Spec, CommittedMonotone

-----------------------------------------------------------------------------
(* Mode 0 ends with the data it kept track of *)

\* A run without -m 1 that has been told TIMED_OUT is on its way out.
WayOut == {"returned", "commit", "exited"}

\* The recorded watermarks lie within the logs.
WatermarksReal ==
  \A i \in 1..Len(logOffset) :
    logOffset[i][2] # Invalid => logOffset[i][2] <= Len(log[logOffset[i][1]])

\* The inductive form of CaughtUpMeansPrinted.  The verdict stays true until the
\* next start: nothing below a real watermark changes, and a program on its way
\* out touches neither list again.
CaughtUpInv ==
  /\ WatermarksReal
  /\ ~waitMode /\ rc = "timed_out" => pc \in WayOut
  /\ CaughtUpMeansPrinted

\* Nothing that was in a log changes, and nothing that was printed is forgotten.
Grows ==
  \A p \in Partitions :
    /\ printed[p] \subseteq printed'[p]
    /\ Len(log[p]) <= Len(log'[p])
    /\ \A o \in 0..(Len(log[p]) - 1) : log'[p][o + 1] = log[p][o + 1]

\* The lists name partitions and offsets.
LEMMA ListEntries ==
  ASSUME TypeOK, NEW i \in 1..Len(logOffset)
  PROVE  /\ logOffset[i][1] \in Partitions /\ logOffset[i][2] \in Nat \cup {Invalid}
         /\ Len(log[logOffset[i][1]]) \in Nat
  <1>1. logOffset[i] \in Partitions \X Offsets BY ElementOfSeq DEF TypeOK, Offsets
  <1>2. log[logOffset[i][1]] \in Seq(Keys \cup {NoKey}) BY <1>1 DEF TypeOK
  <1> QED BY <1>1, <1>2, LenProperties DEF Offsets

\* Every step only appends to the logs and to what was printed.
LEMMA GrowsStep ==
  ASSUME TypeOK, [Next]_vars
  PROVE  Grows
  <1>1. ASSUME NEW p \in Partitions
        PROVE  log[p] \in Seq(Keys \cup {NoKey}) /\ Len(log[p]) \in Nat
    BY LenProperties DEF TypeOK
  <1>2. CASE UNCHANGED <<log, printed>>  BY <1>1, <1>2 DEF Grows
  <1>3. ASSUME NEW q \in Partitions, NEW k \in Keys \cup {NoKey}, Produce(q, k)
        PROVE  Grows
    <2> SUFFICES ASSUME NEW p \in Partitions
                 PROVE  /\ printed[p] \subseteq printed'[p]
                        /\ Len(log[p]) <= Len(log'[p])
                        /\ \A o \in 0..(Len(log[p]) - 1) : log'[p][o + 1] = log[p][o + 1]
      BY DEF Grows
    <2>1. log'[p] = IF p = q THEN Append(log[p], k) ELSE log[p]
      BY <1>3 DEF Produce, TypeOK
    <2>2. UNCHANGED printed BY <1>3 DEF Produce
    <2> QED BY <1>1, <2>1, <2>2
  <1>4. ASSUME NEW q \in Partitions, NEW n \in 1..MaxLen, PeerCommit(q, n)
        PROVE  Grows
    BY <1>1, <1>4 DEF PeerCommit, Grows, TypeOK
  <1>5. CASE Returned
    BY <1>1, <1>5 DEF Returned, brokerVars, Grows
  <1>6. \/ UNCHANGED <<log, printed>> \/ Returned
        \/ \E p \in Partitions, k \in Keys \cup {NoKey} : Produce(p, k)
        \/ \E p \in Partitions, n \in 1..MaxLen : PeerCommit(p, n)
    BY DEF Next, Environment, Program, Revoke, Assign, Interrupt, Crash, Start, Loop,
           FillRead, FillLog, QueryWatermark, Consume, ConsumeTimedOut, ConsumeError,
           HandleMessage, CheckReadEnd, Commit, brokerVars, vars
  <1> QED BY <1>2, <1>3, <1>4, <1>5, <1>6

\* A step that leaves the watermarks alone leaves them within the logs.
LEMMA WatermarksKept ==
  ASSUME TypeOK, TypeOK', WatermarksReal, Grows, UNCHANGED logOffset
  PROVE  WatermarksReal'
  <1> SUFFICES ASSUME NEW i \in 1..Len(logOffset), logOffset[i][2] # Invalid
               PROVE  logOffset[i][2] <= Len(log'[logOffset[i][1]])
    BY DEF WatermarksReal
  <1>1. logOffset[i][1] \in Partitions /\ logOffset[i][2] \in Nat
        /\ Len(log[logOffset[i][1]]) \in Nat
    BY ListEntries
  <1>2. Len(log'[logOffset[i][1]]) \in Nat
    <2>1. log'[logOffset[i][1]] \in Seq(Keys \cup {NoKey}) BY <1>1 DEF TypeOK
    <2> QED BY <2>1, LenProperties
  <1> QED BY <1>1, <1>2 DEF WatermarksReal, Grows

\* A covered offset within the log stays covered.
LEMMA CoveredKept ==
  ASSUME TypeOK, Grows, UNCHANGED filterKeys, NEW p \in Partitions, NEW n \in Int,
         n <= Len(log[p]), Covered(p, n)
  PROVE  Covered(p, n)'
  <1> SUFFICES ASSUME NEW o \in 0..(n - 1), Wanted(KeyAt(p, o))'
               PROVE  o \in printed'[p]
    BY DEF Covered
  <1>1. log[p] \in Seq(Keys \cup {NoKey}) /\ Len(log[p]) \in Nat
    BY LenProperties DEF TypeOK
  <1>2. o \in 0..(Len(log[p]) - 1) BY <1>1
  <1>3. Wanted(KeyAt(p, o)) BY <1>2 DEF Wanted, KeyAt, Grows
  <1> QED BY <1>3 DEF Covered, Grows

\* A step that leaves the verdict and the two lists alone.
LEMMA CaughtUpKept ==
  ASSUME TypeOK, TypeOK', CaughtUpInv, Grows,
         ~waitMode /\ rc = "timed_out" /\ pc \in WayOut => pc' \in WayOut,
         UNCHANGED <<logOffset, readOffSet, filterKeys, waitMode, rc>>
  PROVE  CaughtUpInv'
  <1>1. WatermarksReal' BY WatermarksKept DEF CaughtUpInv
  <1>2. CaughtUpMeansPrinted'
    <2> SUFFICES ASSUME ~waitMode, rc = "timed_out", NEW i \in 1..Len(logOffset),
                        i <= Len(readOffSet), readOffSet[i][1] = logOffset[i][1],
                        readOffSet[i][2] # Invalid
                 PROVE  Covered(logOffset[i][1], logOffset[i][2])'
      BY DEF CaughtUpMeansPrinted
    <2>1. /\ logOffset[i][1] \in Partitions /\ logOffset[i][2] \in Nat \cup {Invalid}
          /\ Len(log[logOffset[i][1]]) \in Nat
      BY ListEntries
    <2>2. Covered(logOffset[i][1], logOffset[i][2])
      BY DEF CaughtUpInv, CaughtUpMeansPrinted
    <2>3. logOffset[i][2] \in Int /\ logOffset[i][2] <= Len(log[logOffset[i][1]])
      BY <2>1 DEF CaughtUpInv, WatermarksReal, Invalid
    <2> DEFINE p == logOffset[i][1]
               n == logOffset[i][2]
    <2>4. p' = p /\ n' = n OBVIOUS
    <2> HIDE DEF p, n
    <2>5. Covered(p, n)' BY <2>1, <2>2, <2>3, CoveredKept DEF p, n
    <2> QED BY <2>4, <2>5 DEF p, n, Covered
  <1> QED BY <1>1, <1>2 DEF CaughtUpInv

\* A step after which Read has not said TIMED_OUT to a run without -m 1
\* only has to keep the watermarks within the logs.
LEMMA NoVerdict ==
  ASSUME WatermarksReal', waitMode' \/ rc' # "timed_out"
  PROVE  CaughtUpInv'
  BY DEF CaughtUpInv, CaughtUpMeansPrinted

\* Before the verdict of this run, rc holds another code.
LEMMA NotYet ==
  ASSUME CaughtUpInv, pc \notin WayOut
  PROVE  waitMode \/ rc # "timed_out"
  BY DEF CaughtUpInv

\* The verdict itself: a partition that was read from has a position, below it
\* all is printed since nothing is in hand, and it is not below the watermark.
LEMMA VerdictStep ==
  ASSUME TypeOK, TypeOK', DeliveryInv, CaughtUpInv, Grows, CheckReadEnd
  PROVE  CaughtUpInv'
  <1>1. /\ pc = "timedOut"
        /\ UNCHANGED <<log, printed, logOffset, filterKeys, waitMode>>
    BY DEF CheckReadEnd, brokerVars, argVars
  <1>2. WatermarksReal' BY <1>1, WatermarksKept DEF CaughtUpInv
  <1>3. waitMode \/ rc # "timed_out" BY <1>1, NotYet DEF WayOut
  <1>4. CASE rc' = "timed_out" /\ ~waitMode
    <2>1. /\ readOffSet' = Positions /\ pc' = "returned"
          /\ \A i \in 1..Len(logOffset) : i <= Len(Positions) => ~Behind(Positions, i)
      BY <1>3, <1>4 DEF CheckReadEnd, Leave
    <2>2. Len(readOffSet) \in Nat /\ Positions \in [1..Len(readOffSet) -> Partitions \X Offsets]
      <3>1. readOffSet \in Seq(Partitions \X Offsets) BY DEF TypeOK, Offsets
      <3>2. \A i \in 1..Len(readOffSet) : readOffSet[i] \in Partitions \X Offsets
        BY <3>1, ElementOfSeq
      <3> QED BY <3>1, <3>2, LenProperties DEF Positions, TypeOK, Offsets
    <2>3. Len(Positions) = Len(readOffSet) BY <2>2, ListIsSeq
    <2>4. ASSUME NEW i \in 1..Len(logOffset), i <= Len(Positions),
                 Positions[i][1] = logOffset[i][1], Positions[i][2] # Invalid
          PROVE  Covered(logOffset[i][1], logOffset[i][2])
      <3> DEFINE p == logOffset[i][1]
                 n == logOffset[i][2]
      <3>1. p \in Partitions /\ n \in Nat \cup {Invalid} BY ListEntries
      <3>2. i \in 1..Len(readOffSet) BY <2>2, <2>3, <2>4
      <3>3. Positions[i] = <<readOffSet[i][1], appPos[readOffSet[i][1]]>>
        BY <3>2 DEF Positions
      <3>4. Positions[i][2] = appPos[p] BY <2>4, <3>3
      <3>5. appPos[p] \in Nat /\ appPos[p] = fetchPos[p] /\ p \in Owned
        BY <2>4, <3>1, <3>4 DEF DeliveryInv, PositionsCovered, TypeOK
      <3>6. n <= fetchPos[p]
        BY <2>1, <2>4, <3>1, <3>4, <3>5 DEF Behind, Invalid
      <3>7. kmsg = {} BY <1>1 DEF DeliveryInv, InHand
      <3>8. \A o \in 0..(fetchPos[p] - 1) : Wanted(KeyAt(p, o)) => o \in printed[p]
        BY <3>5, <3>7 DEF DeliveryInv, PositionsCovered
      <3>9. \A o \in 0..(n - 1) : o \in 0..(fetchPos[p] - 1)
        BY <3>1, <3>5, <3>6 DEF Invalid
      <3> QED BY <3>8, <3>9 DEF Covered
    <2>5. CaughtUpMeansPrinted'
      BY <1>1, <2>1, <2>4 DEF CaughtUpMeansPrinted, Covered, Wanted, KeyAt
    <2> QED BY <1>2, <2>1, <2>5 DEF CaughtUpInv, WayOut
  <1>5. CASE ~(rc' = "timed_out" /\ ~waitMode)
    BY <1>1, <1>2, <1>5, NoVerdict
  <1> QED BY <1>4, <1>5

\* Every step keeps the invariant.
LEMMA CaughtUpStep ==
  TypeOK /\ TypeOK' /\ DeliveryInv /\ CaughtUpInv /\ [Next]_vars => CaughtUpInv'
  <1> SUFFICES ASSUME TypeOK, TypeOK', DeliveryInv, CaughtUpInv, [Next]_vars
               PROVE  CaughtUpInv'
    OBVIOUS
  <1>g. Grows BY GrowsStep
  <1>1. CASE /\ UNCHANGED <<logOffset, readOffSet, filterKeys, waitMode, rc>>
             /\ ~waitMode /\ rc = "timed_out" /\ pc \in WayOut => pc' \in WayOut
    BY <1>1, <1>g, CaughtUpKept
  <1>2. ASSUME UNCHANGED <<logOffset, waitMode>>, pc \notin WayOut,
               rc' \in {rc, "fail", "eof", "unknown_partition", "ok"}
        PROVE  CaughtUpInv'
    <2>1. WatermarksReal' BY <1>2, <1>g, WatermarksKept DEF CaughtUpInv
    <2> QED BY <1>2, <2>1, NotYet, NoVerdict
  <1>3. CASE Start
    <2>1. logOffset' = <<>> /\ rc' = "ok" BY <1>3 DEF Start
    <2>2. WatermarksReal' BY <2>1 DEF WatermarksReal
    <2> QED BY <2>1, <2>2, NoVerdict
  <1>4. CASE FillRead
    BY <1>2, <1>4 DEF FillRead, WayOut, argVars
  <1>5. CASE ConsumeError
    BY <1>2, <1>5 DEF ConsumeError, WayOut, argVars
  <1>6. CASE HandleMessage
    BY <1>2, <1>6 DEF HandleMessage, WayOut, argVars
  <1>7. CASE FillLog
    <2>1. pc \notin WayOut /\ UNCHANGED <<rc, waitMode>> BY <1>7 DEF FillLog, WayOut, argVars
    <2>2. CASE UNCHANGED logOffset BY <1>2, <2>1, <2>2
    <2>3. CASE logOffset' = AssignmentList
      <3>1. Len(assigned) \in Nat BY LenProperties DEF TypeOK
      <3>2. \A i \in 1..Len(assigned) : assigned[i] \in Partitions BY ElementOfSeq DEF TypeOK
      <3>3. AssignmentList \in [1..Len(assigned) -> Partitions \X Offsets]
        BY <3>2 DEF AssignmentList, Offsets
      <3>4. Len(AssignmentList) = Len(assigned) BY <3>1, <3>3, ListIsSeq
      <3>5. \A i \in 1..Len(AssignmentList) : AssignmentList[i][2] = Invalid
        BY <3>4 DEF AssignmentList
      <3>6. WatermarksReal' BY <2>3, <3>5 DEF WatermarksReal
      <3> QED BY <2>1, <3>6, NotYet, NoVerdict
    <2> QED BY <1>7, <2>2, <2>3 DEF FillLog
  <1>8. CASE QueryWatermark
    <2>1. pc \notin WayOut /\ UNCHANGED <<rc, waitMode, log>>
      BY <1>8 DEF QueryWatermark, WayOut, argVars, brokerVars
    <2>2. CASE UNCHANGED logOffset BY <1>2, <2>1, <2>2
    <2>3. ASSUME NEW i \in 1..Len(logOffset),
                 logOffset' = [logOffset EXCEPT ![i] =
                                <<logOffset[i][1], Len(log[logOffset[i][1]])>>]
          PROVE  CaughtUpInv'
      <3>1. logOffset \in Seq(Partitions \X Offsets) BY DEF TypeOK, Offsets
      <3>2. logOffset \in [1..Len(logOffset) -> Partitions \X Offsets] BY <3>1, LenProperties
      <3>3. Len(logOffset') = Len(logOffset)
        <4>1. logOffset' \in [1..Len(logOffset) -> {logOffset'[j] : j \in 1..Len(logOffset)}]
          BY <2>3, <3>2
        <4> QED BY <3>1, <4>1, LenProperties, ListIsSeq
      <3>4. Len(log[logOffset[i][1]]) \in Nat BY ListEntries
      <3>5. \A j \in 1..Len(logOffset) :
              logOffset'[j] = IF j = i THEN <<logOffset[i][1], Len(log[logOffset[i][1]])>>
                                       ELSE logOffset[j]
        BY <2>3, <3>2
      <3>6. WatermarksReal'
        BY <2>1, <3>3, <3>4, <3>5 DEF WatermarksReal, CaughtUpInv
      <3> QED BY <2>1, <3>6, NotYet, NoVerdict
    <2> QED BY <1>8, <2>2, <2>3 DEF QueryWatermark
  <1>9. CASE CheckReadEnd  BY <1>9, <1>g, VerdictStep
  <1>10. \/ Start \/ FillRead \/ ConsumeError \/ HandleMessage \/ FillLog
         \/ QueryWatermark \/ CheckReadEnd
         \/ /\ UNCHANGED <<logOffset, readOffSet, filterKeys, waitMode, rc>>
            /\ ~waitMode /\ rc = "timed_out" /\ pc \in WayOut => pc' \in WayOut
    <2>1. ASSUME NEW p \in Partitions, NEW k \in Keys \cup {NoKey}, Produce(p, k)
          PROVE  UNCHANGED <<readerVars, argVars>>
      BY <2>1 DEF Produce
    <2>2. CASE Crash BY <2>2 DEF Crash, Leave, WayOut, argVars
    <2>3. CASE Commit BY <2>3 DEF Commit, Leave, WayOut, argVars
    <2>4. ASSUME NEW p \in Partitions, Consume(p)
          PROVE  UNCHANGED <<logOffset, readOffSet, argVars, rc>> /\ pc = "consume"
      BY <2>4 DEF Consume
    <2>5. CASE Returned BY <2>5 DEF Returned, WayOut, argVars
    <2>6. CASE Revoke \/ Assign \/ Interrupt
      BY <2>6 DEF Revoke, Assign, Interrupt, readerVars, argVars
    <2>7. CASE Loop \/ ConsumeTimedOut
      BY <2>7 DEF Loop, ConsumeTimedOut, WayOut, argVars
    <2>8. CASE UNCHANGED vars
      BY <2>8 DEF vars, readerVars, argVars
    <2>9. ASSUME NEW p \in Partitions, NEW n \in 1..MaxLen, PeerCommit(p, n)
          PROVE  UNCHANGED <<readerVars, argVars>>
      BY <2>9 DEF PeerCommit
    <2> QED BY <2>1, <2>2, <2>3, <2>4, <2>5, <2>6, <2>7, <2>8, <2>9
            DEF Next, Environment, Program, readerVars, argVars, WayOut
  <1> QED BY <1>1, <1>3, <1>4, <1>5, <1>6, <1>7, <1>8, <1>9, <1>10

\* "0: Exit after obtaining the current all data" is kept for what the program
\* tracks: when Read has answered TIMED_OUT, every partition that was read from
\* has been printed up to the watermark recorded for it.
THEOREM EndsWithTheData == Spec => []CaughtUpMeansPrinted
  <1>1. Init => CaughtUpInv
    BY DEF Init, CaughtUpInv, WatermarksReal, CaughtUpMeansPrinted
  <1>2. CaughtUpInv => CaughtUpMeansPrinted BY DEF CaughtUpInv
  <1> QED BY <1>1, <1>2, CaughtUpStep, TypeCorrect, DeliveryCorrect, PTL DEF Spec

-----------------------------------------------------------------------------
(* The program is an at-least-once reader *)

\* The topic as the at-least-once reader sees it.
Ends == [p \in Partitions |-> Len(log[p])]
WantedOffsets == [p \in Partitions |-> {o \in 0..(Len(log[p]) - 1) : Wanted(KeyAt(p, o))}]

\* The producer's step: the new message is wanted or not, and the others stay
\* what they were.
LEMMA AppendRefines ==
  ASSUME TypeOK, NEW p \in Partitions, NEW k \in Keys \cup {NoKey}, Produce(p, k)
  PROVE  Delivery!Append(p)
  <1>1. /\ log' = [log EXCEPT ![p] = Append(@, k)]
        /\ UNCHANGED <<committed, printed, filterKeys>>
    BY DEF Produce, argVars
  <1>2. ASSUME NEW q \in Partitions
        PROVE  /\ Len(log[q]) \in Nat
               /\ Len(log'[q]) = IF q = p THEN Len(log[q]) + 1 ELSE Len(log[q])
               /\ \A o \in 0..(Len(log[q]) - 1) : log'[q][o + 1] = log[q][o + 1]
    <2>1. log[q] \in Seq(Keys \cup {NoKey}) BY DEF TypeOK
    <2>2. log'[q] = IF q = p THEN Append(log[q], k) ELSE log[q]
      BY <1>1 DEF TypeOK
    <2> QED BY <2>1, <2>2
  <1>3. Ends' = [Ends EXCEPT ![p] = @ + 1]
    BY <1>2 DEF Ends
  <1>4. DEFINE new == {o \in {Len(log[p])} : Wanted(KeyAt(p, o))'}
        WantedIn(q) == {o \in 0..(Len(log[q]) - 1) : Wanted(KeyAt(q, o))}
  <1>5. ASSUME NEW q \in Partitions
        PROVE  WantedIn(q)' = IF q = p THEN WantedIn(q) \cup new ELSE WantedIn(q)
    <2>1. \A o \in 0..(Len(log[q]) - 1) : Wanted(KeyAt(q, o))' <=> Wanted(KeyAt(q, o))
      BY <1>1, <1>2 DEF Wanted, KeyAt
    <2>2. CASE q = p
      <3>1. \A o : o \in 0..(Len(log'[q]) - 1)
                     <=> o \in 0..(Len(log[q]) - 1) \/ o = Len(log[q])
        BY <1>2, <2>2
      <3>2. \A o : o \in WantedIn(q)' <=> o \in WantedIn(q) \/ o \in new
        BY <2>1, <2>2, <3>1
      <3> QED BY <2>2, <3>2
    <2>3. CASE q # p
      <3>1. 0..(Len(log'[q]) - 1) = 0..(Len(log[q]) - 1) BY <1>2, <2>3
      <3> QED BY <2>1, <2>3, <3>1
    <2> QED BY <2>2, <2>3
  <1>6. WantedOffsets' = [q \in Partitions |-> WantedIn(q)'] BY DEF WantedOffsets
  <1>7. WantedOffsets = [q \in Partitions |-> WantedIn(q)] BY DEF WantedOffsets
  <1> HIDE DEF WantedIn
  <1>8. WantedOffsets' = [WantedOffsets EXCEPT ![p] = @ \cup new]
    BY <1>5, <1>6, <1>7
  <1>9. new = {} \/ new = {Ends[p]} BY DEF Ends
  <1>10. WantedOffsets' \in {WantedOffsets, [WantedOffsets EXCEPT ![p] = @ \cup {Ends[p]}]}
    <2>1. CASE new = {} BY <1>7, <1>8, <2>1
    <2>2. CASE new = {Ends[p]} BY <1>8, <2>2
    <2> QED BY <1>9, <2>1, <2>2
  <1> QED BY <1>1, <1>3, <1>10 DEF Delivery!Append, Ends, WantedOffsets

\* A step that only shows messages of the topic, and may commit them, if it
\* leaves the delivery invariant true: the common part of the next three lemmas.
LEMMA CommitRefines ==
  ASSUME TypeOK, TypeOK', DeliveryInv, DeliveryInv', Next, UNCHANGED <<log, filterKeys>>,
         \A p \in Partitions :
           /\ printed[p] \subseteq printed'[p]
           /\ printed'[p] \subseteq printed[p] \cup 0..(Len(log[p]) - 1)
  PROVE  Delivery!ShownGrows /\ Delivery!Commit
  <1>1. Ends' = Ends /\ WantedOffsets' = WantedOffsets
    BY DEF Ends, WantedOffsets, Wanted, KeyAt
  <1>2. committed' \in [Partitions -> Nat] /\ printed' \in [Partitions -> SUBSET Nat]
    BY DEF TypeOK
  <1>3. ASSUME NEW p \in Partitions
        PROVE  /\ committed[p] <= committed'[p] /\ committed'[p] <= Len(log[p])
               /\ WantedOffsets[p] \cap 0..(committed'[p] - 1) \subseteq printed'[p]
    <2>1. committed[p] <= committed'[p] BY <1>2, ForwardStep DEF TypeOK
    <2>2. committed'[p] <= Len(log[p]) BY DEF DeliveryInv, PositionsCovered
    <2>3. \A o \in 0..(committed'[p] - 1) : Wanted(KeyAt(p, o))' => o \in printed'[p]
      BY DEF DeliveryInv, CommittedCovered, Covered
    <2> QED BY <2>1, <2>2, <2>3 DEF WantedOffsets, Wanted, KeyAt
  <1>4. Delivery!ShownGrows BY <1>2 DEF Delivery!ShownGrows
  <1> QED BY <1>1, <1>2, <1>3, <1>4 DEF Delivery!Commit, Ends, WantedOffsets

\* Another member: what it prints is in the topic.
LEMMA PeerCommitRefines ==
  ASSUME TypeOK, DeliveryInv, NEW p \in Partitions, NEW n \in 1..MaxLen, PeerCommit(p, n)
  PROVE  Delivery!Commit
  <1>1. Next /\ TypeOK' /\ DeliveryInv'
    BY TypeStep, DeliveryStep DEF Next, Environment
  <1>2. /\ n <= Len(log[p]) /\ UNCHANGED <<log, filterKeys>>
        /\ printed' = [printed EXCEPT ![p] = @ \cup committed[p]..(n - 1)]
    BY DEF PeerCommit, argVars
  <1>3. ASSUME NEW q \in Partitions
        PROVE  /\ printed[q] \subseteq printed'[q]
               /\ printed'[q] \subseteq printed[q] \cup 0..(Len(log[q]) - 1)
    <2>1. printed'[q] = IF q = p THEN printed[q] \cup committed[p]..(n - 1) ELSE printed[q]
      BY <1>2 DEF TypeOK
    <2>2. Len(log[p]) \in Nat /\ committed[p] \in Nat BY LenProperties DEF TypeOK
    <2>3. committed[p]..(n - 1) \subseteq 0..(Len(log[p]) - 1) BY <1>2, <2>2
    <2>4. CASE q = p BY <2>1, <2>3, <2>4
    <2>5. CASE q # p BY <2>1, <2>5
    <2> QED BY <2>4, <2>5
  <1> QED BY <1>1, <1>2, <1>3, CommitRefines

\* main prints what Read returned: a message of the topic, and nothing is committed.
LEMMA ReturnedRefines ==
  ASSUME TypeOK, DeliveryInv, Returned
  PROVE  Delivery!Show
  <1>1. Next /\ TypeOK' /\ DeliveryInv'
    BY TypeStep, DeliveryStep DEF Next, Program
  <1>2. /\ printed' = [p \in Partitions |->
                         printed[p] \cup {m[2] : m \in {n \in kmsg : n[1] = p}}]
        /\ UNCHANGED <<log, committed, filterKeys>>
    BY DEF Returned, brokerVars, argVars
  <1>3. \A m \in kmsg : m[2] \in 0..(Len(log[m[1]]) - 1)
    <2> SUFFICES ASSUME NEW m \in kmsg PROVE m[2] \in 0..(Len(log[m[1]]) - 1)
      OBVIOUS
    <2>1. m[1] \in Partitions /\ m[2] \in Nat BY DEF TypeOK
    <2>2. Len(log[m[1]]) \in Nat BY <2>1, LenProperties DEF TypeOK
    <2>3. m[2] < Len(log[m[1]]) BY DEF DeliveryInv, InHand
    <2> QED BY <2>1, <2>2, <2>3
  <1>4. \A p \in Partitions :
          /\ printed[p] \subseteq printed'[p]
          /\ printed'[p] \subseteq printed[p] \cup 0..(Len(log[p]) - 1)
    BY <1>2, <1>3
  <1>5. Delivery!ShownGrows BY <1>1, <1>2, <1>4, CommitRefines
  <1>6. Ends' = Ends /\ WantedOffsets' = WantedOffsets
    BY <1>2 DEF Ends, WantedOffsets, Wanted, KeyAt
  <1> QED BY <1>2, <1>5, <1>6 DEF Delivery!Show, Ends, WantedOffsets

\* CommitOffset is a commit of the at-least-once reader.
LEMMA CommitOffsetRefines ==
  ASSUME TypeOK, DeliveryInv, Commit
  PROVE  Delivery!Commit
  <1>1. Next /\ TypeOK' /\ DeliveryInv'
    BY TypeStep, DeliveryStep DEF Next, Program
  <1>2. UNCHANGED <<log, filterKeys, printed>> BY DEF Commit, argVars
  <1>3. \A p \in Partitions :
          /\ printed[p] \subseteq printed'[p]
          /\ printed'[p] \subseteq printed[p] \cup 0..(Len(log[p]) - 1)
    BY <1>2
  <1> QED BY <1>1, <1>2, <1>3, CommitRefines

\* The other steps (the loops of main and Read, fillOffset, consume, rebalances,
\* kills, Ctrl-C) change nothing that the at-least-once reader has.
LEMMA RefinesStep ==
  TypeOK /\ DeliveryInv /\ [Next]_vars => [Delivery!Next]_(Delivery!vars)
  <1> SUFFICES ASSUME TypeOK, DeliveryInv, [Next]_vars
               PROVE  [Delivery!Next]_(Delivery!vars)
    OBVIOUS
  <1>1. ASSUME UNCHANGED <<log, committed, printed, filterKeys>>
        PROVE  UNCHANGED Delivery!vars
    BY <1>1 DEF Delivery!vars, Wanted, KeyAt
  <1>2. \/ UNCHANGED <<log, committed, printed, filterKeys>> \/ Returned \/ Commit
        \/ \E p \in Partitions, k \in Keys \cup {NoKey} : Produce(p, k)
        \/ \E p \in Partitions, n \in 1..MaxLen : PeerCommit(p, n)
    BY DEF Next, Environment, Program, Revoke, Assign, Interrupt, Crash, Start, Loop,
           FillRead, FillLog, QueryWatermark, Consume, ConsumeTimedOut, ConsumeError,
           HandleMessage, CheckReadEnd, brokerVars, argVars, vars
  <1> QED
    BY <1>1, <1>2, AppendRefines, PeerCommitRefines, ReturnedRefines, CommitOffsetRefines
    DEF Delivery!Next

\* The program is an at-least-once reader of what its filter selects: AtLeastOnce,
\* with the positions, the rebalances, the failures and the restarts left out.
THEOREM RefinesAtLeastOnce == Spec => ReadsAtLeastOnce
  <1>1. Init => Delivery!Init
    <2> SUFFICES ASSUME Init PROVE Delivery!Init
      OBVIOUS
    <2>1. \A p \in Partitions : Len(log[p]) = 0
      <3>1. \A p \in Partitions : log[p] = <<>> BY DEF Init
      <3>2. Len(<<>>) = 0 OBVIOUS
      <3> QED BY <3>1, <3>2
    <2>2. Ends = [p \in Partitions |-> 0] BY <2>1 DEF Ends
    <2>3. WantedOffsets = [p \in Partitions |-> {}] BY <2>1 DEF WantedOffsets
    <2> QED BY <2>2, <2>3 DEF Init, Delivery!Init, Ends, WantedOffsets
  <1> QED
    BY <1>1, RefinesStep, TypeCorrect, DeliveryCorrect, PTL
    DEF Spec, ReadsAtLeastOnce, Delivery!Spec
=============================================================================
