-------------------------- MODULE AtLeastOnceProofs --------------------------
(***************************************************************************)
(* What every at-least-once reader guarantees, however it works.           *)
(***************************************************************************)
EXTENDS AtLeastOnce, TLAPS

\* The variables' types.
Typed ==
  /\ end \in [Partitions -> Nat] /\ wanted \in [Partitions -> SUBSET Nat]
  /\ shown \in [Partitions -> SUBSET Nat] /\ committed \in [Partitions -> Nat]

\* Every step keeps the types and loses nothing.  A new message is not below a
\* committed offset, and what is shown stays shown.
LEMMA NothingLostStep ==
  Typed /\ NothingLost /\ [Next]_vars => Typed' /\ NothingLost'
  <1> SUFFICES ASSUME Typed, NothingLost, [Next]_vars PROVE Typed' /\ NothingLost'
    OBVIOUS
  <1>1. ASSUME NEW p \in Partitions, Append(p) PROVE Typed' /\ NothingLost'
    <2>1. Typed' BY <1>1 DEF Append, Typed
    <2>2. ASSUME NEW q \in Partitions
          PROVE  /\ committed[q] <= end'[q] /\ shown[q] \subseteq 0..(end'[q] - 1)
                 /\ wanted'[q] \cap 0..(committed[q] - 1) \subseteq shown[q]
      <3>1. end'[q] = IF q = p THEN end[q] + 1 ELSE end[q]
        BY <1>1 DEF Append, Typed
      <3>2. wanted'[q] \subseteq wanted[q] \cup {end[q]}
        BY <1>1 DEF Append, Typed
      <3> QED BY <3>1, <3>2 DEF Typed, NothingLost
    <2> QED BY <1>1, <2>1, <2>2 DEF Append, NothingLost
  <1>2. ASSUME ShownGrows, UNCHANGED end
        PROVE  \A p \in Partitions : shown'[p] \subseteq 0..(end'[p] - 1)
    BY <1>2 DEF ShownGrows, Typed, NothingLost
  <1>3. CASE Show
    <2>1. Typed' BY <1>3 DEF Show, ShownGrows, Typed
    <2> QED BY <1>2, <1>3, <2>1 DEF Show, ShownGrows, NothingLost
  <1>4. CASE Commit
    <2>1. Typed' BY <1>4 DEF Commit, ShownGrows, Typed
    <2> QED BY <1>2, <1>4, <2>1 DEF Commit, NothingLost
  <1>5. CASE UNCHANGED vars
    BY <1>5 DEF vars, Typed, NothingLost
  <1> QED BY <1>1, <1>3, <1>4, <1>5 DEF Next

\* No wanted message below a committed offset is ever unshown, and nothing is
\* shown that is not in the topic.
THEOREM NothingEverLost == Spec => []NothingLost
  <1>1. Init => Typed /\ NothingLost
    BY DEF Init, Typed, NothingLost
  <1> QED BY <1>1, NothingLostStep, PTL DEF Spec
=============================================================================
