------------------------------ MODULE FraudPolicy ------------------------------
(***************************************************************************)
(* What the fraud detector promises of the alerts, in terms of the changes *)
(* it has seen and when it saw them: a large change of an account may      *)
(* raise one alert, about the last small change before it, and must raise  *)
(* it when a small change that stands alone is less than a window ago.     *)
(* No flag and no timer appear here; FraudDetector implements it.          *)
(***************************************************************************)
EXTENDS Integers, Sequences

CONSTANTS
  Accounts, Amounts,
  Small, Large,   \* a change is small below the one, large above the other
  Window,         \* how long a small change is remembered
  Slack           \* how much longer it may be

VARIABLES
  now,            \* the time
  txs,            \* the changes seen, in order
  alerts          \* the alerts: the small change, the large one

vars == <<now, txs, alerts>>

Init == now = 0 /\ txs = <<>> /\ alerts = {}

Seen == 1..Len(txs)
SmallOf(a) == {i \in Seen : txs[i].account = a /\ txs[i].amount < Small}
Since(a, i) == {txs[k].amount : k \in {k \in Seen : k > i /\ txs[k].account = a}}

\* The small change i of the account is the last one, and no large one followed.
Open(a, i) == i \in SmallOf(a) /\ Since(a, i) \subseteq Small..Large

\* No small change before i is so near that it may be forgotten only after i.
Alone(a, i) == \A k \in SmallOf(a) : k < i => txs[k].at + Window + Slack < txs[i].at

\* Less than a window ago the account had such a small change, and no large one
\* since.
Suspicious(a) ==
  \E i \in SmallOf(a) :
    /\ Alone(a, i) /\ now - txs[i].at < Window
    /\ \A amt \in Since(a, i) : amt <= Large

TimePasses == now' = now + 1 /\ UNCHANGED <<txs, alerts>>

See(a, amt) ==
  /\ txs' = Append(txs, [account |-> a, amount |-> amt, at |-> now])
  /\ UNCHANGED now

\* A large change raises an alert.
Alert(a, amt) ==
  /\ amt > Large /\ See(a, amt)
  /\ \E i \in Seen :
       /\ Open(a, i) /\ now - txs[i].at <= Window + Slack
       /\ alerts' = alerts \cup {[small |-> i, large |-> Len(txs) + 1]}

\* Any other change, and a large one that need not.
Pass(a, amt) ==
  /\ ~(amt > Large /\ Suspicious(a)) /\ See(a, amt)
  /\ UNCHANGED alerts

Next ==
  \/ TimePasses
  \/ \E a \in Accounts, amt \in Amounts : Alert(a, amt) \/ Pass(a, amt)

Spec == Init /\ [][Next]_vars
================================================================================
