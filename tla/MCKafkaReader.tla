---------------------------- MODULE MCKafkaReader ----------------------------
(***************************************************************************)
(* Instances of KafkaReader for TLC: one partition, where the assignment   *)
(* is all or nothing, and two partitions, assigned in either order, alone  *)
(* or together.                                                            *)
(***************************************************************************)
EXTENDS KafkaReader, FiniteSets, TLC

\* Every ordered choice of partitions the group can give to this member.
MCAssignments ==
  UNION {{s \in [1..n -> Partitions] : Cardinality({s[i] : i \in 1..n}) = n}
           : n \in 0..Cardinality(Partitions)}

\* Keys and partitions are only compared with each other.
MCSymmetry == Permutations(Keys) \cup Permutations(Partitions)
=============================================================================
