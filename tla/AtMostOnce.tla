------------------------------ MODULE AtMostOnce ------------------------------
(***************************************************************************)
(* What a sequence of remote calls promises its user: each is asked for    *)
(* once and carried out at most once, one after the other is given a       *)
(* verdict, and the verdict is true and final.  A call that is said to     *)
(* have failed may have been carried out, or may be later, unless it was   *)
(* never asked for.  No connection, password, packet or time-out appears   *)
(* here; AdmClient implements it.                                          *)
(***************************************************************************)
EXTENDS Integers

CONSTANTS
  Calls,      \* the numbers of the calls, in their order
  Verdicts    \* what the user may be told: "failed", "error" or any other answer

VARIABLES
  asked,      \* the calls that have been asked for
  done,       \* per call, how often it was carried out
  said        \* per call, the verdict; "none" before there is one

vars == <<asked, done, said>>

Init ==
  /\ asked = {} /\ done = [k \in Calls |-> 0] /\ said = [k \in Calls |-> "none"]

\* The user has been told about every call before k, and not about k.
Current(k) == said[k] = "none" /\ \A j \in Calls : j < k => said[j] # "none"

Ask(k) ==
  /\ Current(k) /\ k \notin asked
  /\ asked' = asked \cup {k}
  /\ UNCHANGED <<done, said>>

\* Not after an answer, but perhaps after the client has given up, and then also
\* after later calls.
Execute(k) ==
  /\ k \in asked /\ done[k] = 0 /\ said[k] \in {"none", "failed"}
  /\ done' = [done EXCEPT ![k] = 1]
  /\ UNCHANGED <<asked, said>>

\* An error means that the call is not carried out, any other answer that it was.
Say(k, verdict) ==
  /\ Current(k)
  /\ verdict # "failed" => k \in asked /\ done[k] = IF verdict = "error" THEN 0 ELSE 1
  /\ said' = [said EXCEPT ![k] = verdict]
  /\ UNCHANGED <<asked, done>>

Next ==
  \E k \in Calls :
    Ask(k) \/ Execute(k) \/ \E verdict \in Verdicts : Say(k, verdict)

Spec == Init /\ [][Next]_vars
===============================================================================
