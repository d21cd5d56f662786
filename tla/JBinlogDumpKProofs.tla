------------------------- MODULE JBinlogDumpKProofs -------------------------
(***************************************************************************)
(* What JBinlogDumpK promises for every number of partitions, messages,    *)
(* rebalances, faults and runs: its types, that the commits the client     *)
(* library makes by itself cover printed records only, that a run          *)
(* with -w 0 leaves its loop caught up, and that the program implements    *)
(* AtLeastOnce.                                                            *)
(***************************************************************************)
EXTENDS JBinlogDumpK, TLAPS

\* Every step of main, the client library and their environment keeps the types.
LEMMA TypeStep == TypeOK /\ [Next]_vars => TypeOK'
  <1> SUFFICES ASSUME TypeOK, [Next]_vars PROVE TypeOK'
    OBVIOUS
  <1> USE DumpAssumption
  <1>1. ASSUME NEW p \in Partitions, Produce(p) PROVE TypeOK'
    BY <1>1 DEF Produce, TypeOK, NoRecords, clientVars, mainVars, argVars, counters
  <1>2. ASSUME NEW p \in Partitions, NEW n \in 1..MaxLen, PeerCommit(p, n)
        PROVE  TypeOK'
    BY <1>2 DEF PeerCommit, TypeOK, NoRecords, clientVars, mainVars, argVars, counters
  <1>3. CommitPositions => /\ committed' \in [Partitions -> Nat]
                           /\ \A p \in Partitions : committed'[p] <= end[p]
    BY DEF CommitPositions, TypeOK
  <1>4. CASE AutoCommit
    BY <1>3, <1>4 DEF AutoCommit, TypeOK, NoRecords, clientVars, mainVars, argVars, counters
  <1>5. CASE Revoke
    BY <1>3, <1>5 DEF Revoke, Fault, TypeOK, NoRecords, mainVars, argVars
  <1>6. CASE Assign
    BY <1>6 DEF Assign, TypeOK, NoRecords, mainVars, argVars, counters
  <1>7. CASE Kill
    BY <1>7 DEF Kill, Running, Fault, TypeOK, NoRecords, argVars
  <1>8. CASE Start
    BY <1>8 DEF Start, Running, TypeOK, NoRecords, clientVars, argVars
  <1>9. CASE PollEmpty
    BY <1>9 DEF PollEmpty, TypeOK, NoRecords, clientVars, argVars, counters
  <1>10. ASSUME NEW upto \in [Partitions -> 0..MaxLen], PollRecords(upto)
         PROVE  TypeOK'
    <2>1. \A p \in Partitions : upto[p] <= end[p]
      BY <1>10 DEF PollRecords, Fetch, TypeOK
    <2>2. \E p \in Partitions : upto[p] # position[p]
      BY <1>10 DEF PollRecords, Fetch, TypeOK
    <2>3. /\ records' = [p \in Partitions |-> position[p]..(upto[p] - 1)]
          /\ position \in [Partitions -> Nat]
          /\ \A p \in Partitions : position[p] <= upto[p]
      BY <1>10 DEF PollRecords, Fetch, TypeOK
    <2>4. records' \in [Partitions -> SUBSET Nat] /\ records' # NoRecords
      <3>1. \A p \in Partitions : position[p] \in Nat /\ upto[p] \in Nat
        BY <2>3
      <3>2. \A p \in Partitions : position[p]..(upto[p] - 1) \in SUBSET Nat
        BY <3>1
      <3>3. PICK p \in Partitions : upto[p] # position[p] BY <2>2
      <3>4. position[p] \in records'[p] BY <2>3, <3>1, <3>3
      <3>5. NoRecords[p] = {} BY DEF NoRecords
      <3>6. records' # NoRecords BY <3>4, <3>5
      <3> QED BY <2>3, <3>2, <3>6
    <2>5. position' \in [Partitions -> Nat]
      BY <1>10 DEF PollRecords, Fetch
    <2> QED
      BY <1>10, <2>1, <2>4, <2>5
      DEF PollRecords, Fetch, TypeOK, NoRecords, argVars, counters
  <1>11. ASSUME NEW p \in Partitions, NEW o \in 0..(MaxLen - 1), PrintNext(p, o)
         PROVE  TypeOK'
    BY <1>11 DEF PrintNext, PrintRecord, TypeOK, NoRecords, clientVars, argVars, counters
  <1>12. CASE Close
    BY <1>3, <1>12 DEF Close, Fault, TypeOK, NoRecords, argVars
  <1>13. CASE UNCHANGED vars
    BY <1>13 DEF vars, TypeOK, NoRecords, clientVars, mainVars, argVars, counters
  <1> QED
    BY <1>1, <1>2, <1>4, <1>5, <1>6, <1>7, <1>8, <1>9, <1>10, <1>11, <1>12, <1>13
    DEF Next, Environment, Program, Poll

\* The types hold in every state.
THEOREM TypeCorrect == Spec => []TypeOK
  <1>1. Init => TypeOK
    BY DumpAssumption DEF Init, TypeOK, NoRecords
  <1> QED BY <1>1, TypeStep, PTL DEF Spec

-----------------------------------------------------------------------------
(* Commits cover printed records only *)

\* What poll() has returned of an assigned partition is printed or in hand,
\* nothing is in hand where the library may commit, and only a running program
\* has partitions.
PositionsPrinted ==
  /\ \A p \in assigned : \A o \in 0..(position[p] - 1) :
       o \in printed[p] \/ o \in records[p]
  /\ pc \in {"poll", "close"} => records = NoRecords
  /\ pc = "exited" => assigned = {}

\* A commit of the positions covers printed records, where nothing is in hand.
LEMMA CommitIsCovered ==
  ASSUME TypeOK, CommittedPrinted, PositionsPrinted,
         pc \in {"poll", "close"}, CommitPositions, printed' = printed
  PROVE  CommittedPrinted'
  <1>1. \A p \in assigned : Covered(p, position[p])
    BY DEF PositionsPrinted, NoRecords, TypeOK, Covered
  <1> QED BY <1>1 DEF CommittedPrinted, CommitPositions, Covered, TypeOK

\* Every step keeps both.
LEMMA PrintedStep ==
  TypeOK /\ CommittedPrinted /\ PositionsPrinted /\ [Next]_vars
    => CommittedPrinted' /\ PositionsPrinted'
  <1> SUFFICES ASSUME TypeOK, CommittedPrinted, PositionsPrinted, [Next]_vars
               PROVE  CommittedPrinted' /\ PositionsPrinted'
    OBVIOUS
  <1>1. ASSUME NEW p \in Partitions, Produce(p)
        PROVE  CommittedPrinted' /\ PositionsPrinted'
    BY <1>1
    DEF Produce, CommittedPrinted, PositionsPrinted, Covered, NoRecords, clientVars, mainVars
  <1>2. ASSUME NEW p \in Partitions, NEW n \in 1..MaxLen, PeerCommit(p, n)
        PROVE  CommittedPrinted' /\ PositionsPrinted'
    <2>1. \A q \in Partitions : printed[q] \subseteq printed'[q]
      BY <1>2 DEF PeerCommit, TypeOK
    <2>2. PositionsPrinted'
      BY <1>2, <2>1
      DEF PeerCommit, PositionsPrinted, NoRecords, TypeOK, clientVars, mainVars
    <2>3. Covered(p, committed[p]) BY DEF CommittedPrinted
    <2>4. 0..(n - 1) \subseteq printed'[p]
      BY <1>2, <2>3, DumpAssumption DEF PeerCommit, Covered, TypeOK
    <2>5. \A q \in Partitions : Covered(q, committed[q])' 
      BY <1>2, <2>1, <2>4 DEF PeerCommit, CommittedPrinted, Covered, TypeOK
    <2> QED BY <2>2, <2>5 DEF CommittedPrinted
  <1>3. CASE AutoCommit
    BY <1>3, CommitIsCovered
    DEF AutoCommit, PositionsPrinted, NoRecords, clientVars, mainVars
  <1>4. CASE Revoke
    <2>1. CommittedPrinted'
      <3>1. CASE CommitPositions BY <1>4, <3>1, CommitIsCovered DEF Revoke
      <3>2. CASE UNCHANGED committed BY <1>4, <3>2 DEF Revoke, CommittedPrinted, Covered
      <3> QED BY <1>4, <3>1, <3>2 DEF Revoke
    <2> QED BY <1>4, <2>1 DEF Revoke, PositionsPrinted, NoRecords, mainVars
  <1>5. CASE Assign
    <2>1. CommittedPrinted' BY <1>5 DEF Assign, CommittedPrinted, Covered
    <2>2. \A p \in assigned' : Covered(p, position'[p])
      BY <1>5 DEF Assign, CommittedPrinted
    <2> QED BY <1>5, <2>1, <2>2 DEF Assign, PositionsPrinted, Covered, NoRecords, mainVars
  <1>6. CASE Kill
    BY <1>6 DEF Kill, CommittedPrinted, PositionsPrinted, Covered
  <1>7. CASE Start
    BY <1>7
    DEF Start, Running, CommittedPrinted, PositionsPrinted, Covered, clientVars
  <1>8. CASE PollEmpty
    BY <1>8 DEF PollEmpty, CommittedPrinted, PositionsPrinted, Covered, clientVars
  <1>9. ASSUME NEW upto \in [Partitions -> 0..MaxLen], PollRecords(upto)
        PROVE  CommittedPrinted' /\ PositionsPrinted'
    <2>1. CommittedPrinted'
      BY <1>9 DEF PollRecords, Fetch, CommittedPrinted, Covered
    <2>2. \A p \in assigned : 0..(position[p] - 1) \subseteq printed[p]
      BY <1>9 DEF PollRecords, Fetch, PositionsPrinted, NoRecords, TypeOK
    <2>3. ASSUME NEW p \in assigned, NEW o \in 0..(upto[p] - 1)
          PROVE  o \in printed[p] \/ o \in records'[p]
      <3>1. p \in Partitions /\ position[p] \in Nat /\ upto[p] \in Nat
        BY DEF TypeOK
      <3>2. records'[p] = position[p]..(upto[p] - 1)
        BY <1>9, <3>1 DEF PollRecords, Fetch
      <3> QED BY <2>2, <3>1, <3>2
    <2> QED BY <1>9, <2>1, <2>3 DEF PollRecords, Fetch, PositionsPrinted
  <1>10. ASSUME NEW p \in Partitions, NEW o \in 0..(MaxLen - 1), PrintNext(p, o)
         PROVE  CommittedPrinted' /\ PositionsPrinted'
    <2>1. \A q \in Partitions : printed[q] \subseteq printed'[q]
      BY <1>10 DEF PrintNext, PrintRecord, TypeOK
    <2>2. CommittedPrinted'
      BY <1>10, <2>1 DEF PrintNext, PrintRecord, CommittedPrinted, Covered
    <2>3. ASSUME NEW q \in assigned, NEW r \in 0..(position[q] - 1)
          PROVE  r \in printed'[q] \/ r \in records'[q]
      <3>1. q \in Partitions BY DEF TypeOK
      <3>2. r \in printed[q] \/ r \in records[q] BY DEF PositionsPrinted
      <3> QED BY <1>10, <2>1, <3>1, <3>2 DEF PrintNext, PrintRecord, TypeOK
    <2>4. pc' \in {"poll", "close"} => records' = NoRecords
      BY <1>10 DEF PrintNext
    <2> QED
      BY <1>10, <2>2, <2>3, <2>4
      DEF PrintNext, PrintRecord, PositionsPrinted, clientVars
  <1>11. CASE Close
    <2>1. CommittedPrinted'
      <3>1. CASE CommitPositions BY <1>11, <3>1, CommitIsCovered DEF Close
      <3>2. CASE UNCHANGED committed BY <1>11, <3>2 DEF Close, CommittedPrinted, Covered
      <3> QED BY <1>11, <3>1, <3>2 DEF Close
    <2> QED BY <1>11, <2>1 DEF Close, PositionsPrinted
  <1>12. CASE UNCHANGED vars
    BY <1>12
    DEF vars, CommittedPrinted, PositionsPrinted, Covered, NoRecords, clientVars, mainVars
  <1> QED
    BY <1>1, <1>2, <1>3, <1>4, <1>5, <1>6, <1>7, <1>8, <1>9, <1>10, <1>11, <1>12
    DEF Next, Environment, Program, Poll

\* Every message below a committed offset has been printed, in every state, for
\* all kills between a poll and the last of its records, all rebalances and all
\* commits the library makes in poll and close.
THEOREM CommitsCoverPrinted == Spec => []CommittedPrinted
  <1>1. Init => CommittedPrinted /\ PositionsPrinted
    BY DEF Init, CommittedPrinted, PositionsPrinted, Covered
  <1> QED BY <1>1, TypeCorrect, PrintedStep, PTL DEF Spec

\* A run with -w 0 leaves its loop (lines 182-198) with all printed that its
\* partitions held, when an empty poll means that nothing was there: nothing is in
\* hand at a poll, and the sixth empty one finds every position at the end.
THEOREM LeavesCaughtUp == Spec => EndsCaughtUp
  <1>1. Init => CommittedPrinted /\ PositionsPrinted
    BY DEF Init, CommittedPrinted, PositionsPrinted, Covered
  <1>2. TypeOK /\ PositionsPrinted /\ [Next]_vars
          => [pc = "poll" /\ pc' = "close" /\ prompt =>
                \A p \in assigned : Covered(p, end[p])]_vars
    <2> SUFFICES ASSUME TypeOK, PositionsPrinted, Next, pc = "poll", pc' = "close", prompt,
                        NEW p \in assigned
                 PROVE  Covered(p, end[p])
      OBVIOUS
    <2>1. PollEmpty
      BY DEF Next, Environment, Program, Poll, Produce, PeerCommit, AutoCommit, Revoke, Assign,
             Kill, Start, PollRecords, PrintNext, PrintRecord, Close, mainVars
    <2>2. position[p] = end[p] BY <2>1 DEF PollEmpty, NothingToRead
    <2>3. p \in Partitions /\ records[p] = {} BY DEF TypeOK, PositionsPrinted, NoRecords
    <2> QED BY <2>2, <2>3 DEF PositionsPrinted, Covered
  <1> QED BY <1>1, <1>2, TypeCorrect, PrintedStep, PTL DEF Spec, EndsCaughtUp

-----------------------------------------------------------------------------
(* The program is an at-least-once reader *)

\* The messages of the topics as the at-least-once reader sees them: all wanted.
WantedOffsets == [p \in Partitions |-> 0..(end[p] - 1)]

\* What is in hand is in the topics: the records poll() returned, line 187.
RecordsExist == \A p \in Partitions : records[p] \subseteq 0..(end[p] - 1)

LEMMA RecordsStep == TypeOK /\ RecordsExist /\ [Next]_vars => RecordsExist'
  <1> SUFFICES ASSUME TypeOK, RecordsExist, [Next]_vars PROVE RecordsExist'
    OBVIOUS
  <1>1. ASSUME NEW p \in Partitions, Produce(p) PROVE RecordsExist'
    BY <1>1 DEF Produce, TypeOK, RecordsExist, mainVars
  <1>2. CASE Start
    BY <1>2 DEF Start, RecordsExist, NoRecords
  <1>3. ASSUME NEW upto \in [Partitions -> 0..MaxLen], PollRecords(upto)
        PROVE  RecordsExist'
    <2>1. ASSUME NEW p \in Partitions PROVE records'[p] \subseteq 0..(end[p] - 1)
      <3>1. position[p] \in Nat /\ upto[p] \in Nat /\ upto[p] <= end[p] /\ end[p] \in Nat
        BY <1>3, DumpAssumption DEF PollRecords, Fetch, TypeOK
      <3>2. records'[p] = position[p]..(upto[p] - 1)
        BY <1>3 DEF PollRecords, Fetch
      <3> QED BY <3>1, <3>2
    <2> QED BY <1>3, <2>1 DEF PollRecords, Fetch, RecordsExist
  <1>4. ASSUME NEW p \in Partitions, NEW o \in 0..(MaxLen - 1), PrintNext(p, o)
        PROVE  RecordsExist'
    BY <1>4 DEF PrintNext, PrintRecord, TypeOK, RecordsExist
  <1>5. CASE UNCHANGED <<end, records>>
    BY <1>5 DEF RecordsExist
  <1> QED
    BY <1>1, <1>2, <1>3, <1>4, <1>5
    DEF Next, Environment, Program, Poll, PeerCommit, AutoCommit, Revoke, Assign, Kill,
        PollEmpty, Close, mainVars, vars

\* The positions of the assigned partitions are not behind the group's offsets:
\* nobody else commits them, and poll() reads on from where the group was.
PositionsAhead == \A p \in assigned : committed[p] <= position[p]

LEMMA AheadStep == TypeOK /\ PositionsAhead /\ [Next]_vars => PositionsAhead'
  <1> SUFFICES ASSUME TypeOK, PositionsAhead, [Next]_vars PROVE PositionsAhead'
    OBVIOUS
  <1>0. \A p \in assigned : position[p] \in Nat /\ committed[p] \in Nat
    BY DEF TypeOK
  <1>1. ASSUME NEW p \in Partitions, NEW n \in 1..MaxLen, PeerCommit(p, n)
        PROVE  PositionsAhead'
    BY <1>1 DEF PeerCommit, TypeOK, PositionsAhead, clientVars
  <1>2. ASSUME CommitPositions, UNCHANGED position, assigned' \in {assigned, {}}
        PROVE  PositionsAhead'
    BY <1>0, <1>2 DEF CommitPositions, TypeOK, PositionsAhead
  <1>3. CASE Assign
    BY <1>3 DEF Assign, TypeOK, PositionsAhead
  <1>4. ASSUME NEW upto \in [Partitions -> 0..MaxLen], PollRecords(upto)
        PROVE  PositionsAhead'
    <2>1. ASSUME NEW p \in assigned PROVE committed[p] <= upto[p]
      <3>1. p \in Partitions /\ position[p] <= upto[p] /\ upto[p] \in Nat
        BY <1>4, DumpAssumption DEF PollRecords, Fetch, TypeOK
      <3> QED BY <1>0, <3>1 DEF PositionsAhead
    <2> QED BY <1>4, <2>1 DEF PollRecords, Fetch, PositionsAhead
  <1>5. ASSUME UNCHANGED <<committed, position>>, assigned' \in {assigned, {}}
        PROVE  PositionsAhead'
    BY <1>5 DEF PositionsAhead
  <1> QED
    BY <1>1, <1>2, <1>3, <1>4, <1>5
    DEF Next, Environment, Program, Poll, Produce, AutoCommit, Revoke, Kill, Start,
        PollEmpty, PrintNext, PrintRecord, Close, clientVars, vars

\* A commit of the positions is one of the at-least-once reader.
LEMMA CommitPositionsRefines ==
  ASSUME TypeOK, CommittedPrinted, PositionsPrinted, PositionsAhead,
         pc \in {"poll", "close"}, CommitPositions, UNCHANGED <<end, printed>>
  PROVE  Delivery!Commit
  <1>1. CommittedPrinted' BY CommitIsCovered
  <1>2. ASSUME NEW p \in Partitions
        PROVE  /\ committed[p] <= committed'[p] /\ committed'[p] <= end[p]
               /\ WantedOffsets[p] \cap 0..(committed'[p] - 1) \subseteq printed'[p]
    <2>1. committed'[p] = IF p \in assigned THEN position[p] ELSE committed[p]
      BY DEF CommitPositions
    <2>2. committed[p] \in Nat /\ committed[p] <= end[p] /\ position[p] <= end[p]
      BY DEF TypeOK
    <2>3. p \in assigned => committed[p] <= position[p]
      BY DEF PositionsAhead
    <2>4. 0..(committed'[p] - 1) \subseteq printed'[p]
      BY <1>1 DEF CommittedPrinted, Covered
    <2> QED BY <2>1, <2>2, <2>3, <2>4
  <1>3. committed' \in [Partitions -> Nat]
    BY DEF CommitPositions, TypeOK
  <1>4. Delivery!ShownGrows
    BY DEF Delivery!ShownGrows, TypeOK
  <1> QED BY <1>2, <1>3, <1>4 DEF Delivery!Commit, WantedOffsets

\* Every step is one of the at-least-once reader, or does nothing it can see:
\* poll() with its commit, the rebalances and close() are commits or nothing.
LEMMA RefinesStep ==
  /\ TypeOK /\ CommittedPrinted /\ PositionsPrinted /\ RecordsExist /\ PositionsAhead
  /\ [Next]_vars
  => [Delivery!Next]_(Delivery!vars)
  <1> SUFFICES ASSUME TypeOK, CommittedPrinted, PositionsPrinted, RecordsExist,
                      PositionsAhead, [Next]_vars
               PROVE  [Delivery!Next]_(Delivery!vars)
    OBVIOUS
  <1>1. ASSUME NEW p \in Partitions, Produce(p) PROVE Delivery!Append(p)
    <2>1. end' = [end EXCEPT ![p] = @ + 1] /\ UNCHANGED <<printed, committed>>
      BY <1>1 DEF Produce
    <2>2. ASSUME NEW q \in Partitions
          PROVE  0..(end'[q] - 1) = IF q = p THEN 0..(end[q] - 1) \cup {end[q]}
                                             ELSE 0..(end[q] - 1)
      <3>1. end[q] \in Nat /\ end'[q] = IF q = p THEN end[q] + 1 ELSE end[q]
        BY <2>1, DumpAssumption DEF TypeOK
      <3>2. 0..(end[q] + 1 - 1) = 0..(end[q] - 1) \cup {end[q]} BY <3>1
      <3>3. CASE q = p BY <3>1, <3>2, <3>3
      <3>4. CASE q # p BY <3>1, <3>4
      <3> QED BY <3>3, <3>4
    <2>3. WantedOffsets' = [WantedOffsets EXCEPT ![p] = @ \cup {end[p]}]
      BY <2>2 DEF WantedOffsets
    <2> QED BY <2>1, <2>3 DEF Delivery!Append, WantedOffsets
  <1>2. ASSUME NEW p \in Partitions, NEW n \in 1..MaxLen, PeerCommit(p, n)
        PROVE  Delivery!Commit
    <2>1. /\ n \in Nat /\ committed[p] < n /\ n <= end[p] /\ end' = end
          /\ committed' = [committed EXCEPT ![p] = n]
          /\ printed' = [printed EXCEPT ![p] = @ \cup committed[p]..(n - 1)]
      BY <1>2, DumpAssumption DEF PeerCommit
    <2>2. CommittedPrinted' BY <1>2, PrintedStep DEF Next, Environment
    <2>3. committed' \in [Partitions -> Nat] /\ printed' \in [Partitions -> SUBSET Nat]
      BY <2>1 DEF TypeOK
    <2>4. ASSUME NEW q \in Partitions
          PROVE  /\ committed[q] <= committed'[q] /\ committed'[q] <= end[q]
                 /\ 0..(committed'[q] - 1) \subseteq printed'[q]
                 /\ printed[q] \subseteq printed'[q]
                 /\ printed'[q] \subseteq printed[q] \cup 0..(end[q] - 1)
      <3>1. committed[q] \in Nat /\ committed[q] <= end[q] /\ end[q] \in Nat
        BY DumpAssumption DEF TypeOK
      <3>2. 0..(committed'[q] - 1) \subseteq printed'[q]
        BY <2>2 DEF CommittedPrinted, Covered
      <3>3. CASE q = p
        <4>1. committed'[q] = n BY <2>1, <3>3 DEF TypeOK
        <4>2. printed'[q] = printed[q] \cup committed[q]..(n - 1)
          BY <2>1, <3>3 DEF TypeOK
        <4>3. committed[q]..(n - 1) \subseteq 0..(end[q] - 1)
          BY <2>1, <3>1, <3>3
        <4> QED BY <2>1, <3>1, <3>2, <3>3, <4>1, <4>2, <4>3
      <3>4. CASE q # p
        <4>1. committed'[q] = committed[q] /\ printed'[q] = printed[q]
          BY <2>1, <3>4 DEF TypeOK
        <4> QED BY <3>1, <3>2, <4>1
      <3> QED BY <3>3, <3>4
    <2>5. WantedOffsets' = WantedOffsets BY <2>1 DEF WantedOffsets
    <2> QED
      BY <2>1, <2>3, <2>4, <2>5 DEF Delivery!Commit, Delivery!ShownGrows, WantedOffsets
  <1>3. ASSUME AutoCommit PROVE Delivery!Commit
    BY <1>3, CommitPositionsRefines DEF AutoCommit
  <1>4. ASSUME Revoke \/ Close, CommitPositions PROVE Delivery!Commit
    BY <1>4, CommitPositionsRefines DEF Revoke, Close
  <1>5. ASSUME NEW p \in Partitions, NEW o \in 0..(MaxLen - 1), PrintNext(p, o)
        PROVE  Delivery!Show
    <2>1. o \in records[p] /\ printed' = [printed EXCEPT ![p] = @ \cup {o}]
          /\ UNCHANGED <<end, committed>>
      BY <1>5 DEF PrintNext, PrintRecord
    <2>2. o \in 0..(end[p] - 1) /\ o \in Nat BY <2>1 DEF RecordsExist, TypeOK
    <2>3. printed' \in [Partitions -> SUBSET Nat] BY <2>1, <2>2 DEF TypeOK
    <2>4. \A q \in Partitions : /\ printed[q] \subseteq printed'[q]
                                /\ printed'[q] \subseteq printed[q] \cup 0..(end[q] - 1)
      BY <2>1, <2>2 DEF TypeOK
    <2> QED BY <2>1, <2>3, <2>4 DEF Delivery!Show, Delivery!ShownGrows
  <1>6. CASE UNCHANGED <<end, committed, printed>>
    BY <1>6 DEF Delivery!vars
  <1> QED
    BY <1>1, <1>2, <1>3, <1>4, <1>5, <1>6
    DEF Next, Environment, Program, Poll, Revoke, Assign, Kill, Start, PollEmpty,
        PollRecords, Fetch, Close, vars, Delivery!Next

\* The program, with the commits that its library makes behind its back, is an
\* at-least-once reader of the topics: AtLeastOnce with all messages wanted.
THEOREM RefinesAtLeastOnce == Spec => DumpsAtLeastOnce
  <1>1. Init => Delivery!Init
    <2> SUFFICES ASSUME Init PROVE Delivery!Init
      OBVIOUS
    <2>1. WantedOffsets = [p \in Partitions |-> {}] BY DEF Init, WantedOffsets
    <2> QED BY <2>1 DEF Init, Delivery!Init, WantedOffsets
  <1>2. Init => /\ CommittedPrinted /\ PositionsPrinted
                /\ RecordsExist /\ PositionsAhead
    BY DEF Init, CommittedPrinted, PositionsPrinted, Covered, RecordsExist, NoRecords,
           PositionsAhead
  <1>3. Spec => [](CommittedPrinted /\ PositionsPrinted)
    BY <1>2, TypeCorrect, PrintedStep, PTL DEF Spec
  <1>4. Spec => [](RecordsExist /\ PositionsAhead)
    BY <1>2, TypeCorrect, RecordsStep, AheadStep, PTL DEF Spec
  <1> QED
    BY <1>1, <1>3, <1>4, TypeCorrect, RefinesStep, PTL
    DEF Spec, DumpsAtLeastOnce, Delivery!Spec
=============================================================================
