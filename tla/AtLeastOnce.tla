----------------------------- MODULE AtLeastOnce -----------------------------
(***************************************************************************)
(* What a reader of the topic promises, whatever happens to it: the group  *)
(* may forget a message only after somebody has shown it.  No program, no  *)
(* assignment, no position and no failure appear here; KafkaReader and     *)
(* JBinlogDumpK implement it.                                              *)
(***************************************************************************)
EXTENDS Integers

CONSTANT Partitions

VARIABLES
  end,        \* per partition, the number of its messages
  wanted,     \* the offsets of the messages that have to be shown
  shown,      \* the offsets of the messages that have been shown to the user
  committed   \* where the next reader of the partition will start

vars == <<end, wanted, shown, committed>>

Init ==
  /\ end = [p \in Partitions |-> 0] /\ wanted = [p \in Partitions |-> {}]
  /\ shown = [p \in Partitions |-> {}] /\ committed = [p \in Partitions |-> 0]

\* One more message, wanted or not.
Append(p) ==
  /\ end' = [end EXCEPT ![p] = @ + 1]
  /\ wanted' \in {wanted, [wanted EXCEPT ![p] = @ \cup {end[p]}]}
  /\ UNCHANGED <<shown, committed>>

\* Messages are shown, some of them again; nothing else is.
ShownGrows ==
  /\ shown' \in [Partitions -> SUBSET Nat]
  /\ \A p \in Partitions :
       shown[p] \subseteq shown'[p] /\ shown'[p] \subseteq shown[p] \cup 0..(end[p] - 1)

Show == ShownGrows /\ UNCHANGED <<end, wanted, committed>>

\* Partitions are committed up to messages that have been shown, none of them
\* further back than it was.  A member whose reading is not watched may show its
\* messages in the same step.
Commit ==
  /\ ShownGrows
  /\ committed' \in [Partitions -> Nat]
  /\ \A p \in Partitions :
       /\ committed[p] <= committed'[p] /\ committed'[p] <= end[p]
       /\ wanted[p] \cap 0..(committed'[p] - 1) \subseteq shown'[p]
  /\ UNCHANGED <<end, wanted>>

Next == (\E p \in Partitions : Append(p)) \/ Show \/ Commit

Spec == Init /\ [][Next]_vars

\* No reader is started behind a message that was wanted and not shown, and no
\* message is shown that is not in the topic.
NothingLost ==
  \A p \in Partitions :
    /\ wanted[p] \cap 0..(committed[p] - 1) \subseteq shown[p]
    /\ shown[p] \subseteq 0..(end[p] - 1) /\ committed[p] <= end[p]
=============================================================================
