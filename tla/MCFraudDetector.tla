--------------------------- MODULE MCFraudDetector ---------------------------
(***************************************************************************)
(* Instances of FraudDetector for TLC: a minute of a few ticks, so that    *)
(* timers of several small changes overlap, and amounts on both sides of   *)
(* the two limits.                                                         *)
(***************************************************************************)
EXTENDS FraudDetector, TLC

\* Accounts are only compared with each other.
MCSymmetry == Permutations(Accounts)
=============================================================================
