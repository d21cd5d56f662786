---------------------------- MODULE FraudDetector ----------------------------
(***************************************************************************)
(* FlinkSample/: FraudDetector.java, a KeyedProcessFunction.  Per account  *)
(* it remembers that a small change of the balance was seen, and raises an *)
(* alert when a large one follows before a timer of one minute has cleared *)
(* that memory.                                                            *)
(*                                                                         *)
(* Flink is external: it calls processElement and onTimer one at a time    *)
(* for an account, keeps at most one timer per account and timestamp, and  *)
(* fires the timers of an account in order, each at its time or later.     *)
(* Amounts are in tenths of the currency unit.                             *)
(***************************************************************************)
EXTENDS Integers, Sequences

CONSTANTS
  Accounts,     \* the keys of the stream
  Amounts,      \* the amounts of the transactions
  OneMinute,    \* ONE_MINUTE in ticks of the clock
  MaxLag,       \* how many ticks after its time a timer may fire
  MaxTime,      \* bound: the last tick
  MaxTx         \* bound: transactions

ASSUME DetectorAssumption ==
  /\ Amounts \subseteq Nat
  /\ OneMinute \in Nat \ {0} /\ MaxLag \in Nat
  /\ MaxTime \in Nat /\ MaxTx \in Nat

VARIABLES
  now,          \* currentProcessingTime()
  flagState,    \* per account: is the flag set (TRUE) or null (FALSE)
  timerState,   \* per account: the value of "timer-state", None for null
  timers        \* per account: the timers registered with Flink

\* What happened, for the properties.
VARIABLES
  txs,          \* the transactions processed, in order
  flagTx,       \* per account: the transaction that set the flag last, 0 if none
  alerts        \* the alerts sent: the transaction that set the flag, the large one

stateVars == <<flagState, timerState, timers>>
histVars == <<txs, flagTx, alerts>>
vars == <<now, stateVars, histVars>>

-----------------------------------------------------------------------------
None == -1

SMALL_AMOUNT == 10       \* 1.00
LARGE_AMOUNT == 5000     \* 500.00

\* open(): descriptors only; every account starts with no state.
Init ==
  /\ now = 0
  /\ flagState = [a \in Accounts |-> FALSE]
  /\ timerState = [a \in Accounts |-> None]
  /\ timers = [a \in Accounts |-> {}]
  /\ txs = <<>>
  /\ flagTx = [a \in Accounts |-> 0]
  /\ alerts = {}

\* Processing time passes; a timer is not later than MaxLag.
Tick ==
  /\ now < MaxTime
  /\ \A a \in Accounts : \A t \in timers[a] : now < t + MaxLag
  /\ now' = now + 1
  /\ UNCHANGED <<stateVars, histVars>>

\* Transactions as processElement sees them, and the time at which it does.
Transactions == [account : Accounts, amount : Amounts, at : Nat]

Record(a, amt) == txs' = Append(txs, [account |-> a, amount |-> amt, at |-> now])

\* processElement, a large change while the flag is set: an alert, and cleanUp
\* deletes the timer that timerState names and clears both states.
ProcessAlert(a, amt) ==
  /\ flagState[a] /\ amt > LARGE_AMOUNT
  /\ Record(a, amt)
  /\ alerts' = alerts \cup {[small |-> flagTx[a], large |-> Len(txs) + 1]}
  /\ timers' = [timers EXCEPT ![a] = @ \ {timerState[a]}]
  /\ timerState' = [timerState EXCEPT ![a] = None]
  /\ flagState' = [flagState EXCEPT ![a] = FALSE]
  /\ flagTx' = [flagTx EXCEPT ![a] = 0]
  /\ UNCHANGED now

\* Variant: a timer is registered only when no flag is set yet.
ProcessSmallOneTimer(a, amt) ==
  /\ amt < SMALL_AMOUNT
  /\ Record(a, amt)
  /\ flagState' = [flagState EXCEPT ![a] = TRUE]
  /\ timers' = IF flagState[a] THEN timers
               ELSE [timers EXCEPT ![a] = @ \cup {now + OneMinute}]
  /\ timerState' = [timerState EXCEPT ![a] = now + OneMinute]
  /\ flagTx' = [flagTx EXCEPT ![a] = Len(txs) + 1]
  /\ UNCHANGED <<now, alerts>>

\* Variant: the timer is set in the past.
ProcessSmallPast(a, amt) ==
  /\ amt < SMALL_AMOUNT
  /\ Record(a, amt)
  /\ flagState' = [flagState EXCEPT ![a] = TRUE]
  /\ timers' = [timers EXCEPT ![a] = @ \cup {now - OneMinute}]
  /\ timerState' = [timerState EXCEPT ![a] = now - OneMinute]
  /\ flagTx' = [flagTx EXCEPT ![a] = Len(txs) + 1]
  /\ UNCHANGED <<now, alerts>>

\* Variant: the timer runs a tick too long.
ProcessSmallLong(a, amt) ==
  /\ amt < SMALL_AMOUNT
  /\ Record(a, amt)
  /\ flagState' = [flagState EXCEPT ![a] = TRUE]
  /\ timers' = [timers EXCEPT ![a] = @ \cup {now + OneMinute + 1}]
  /\ timerState' = [timerState EXCEPT ![a] = now + OneMinute + 1]
  /\ flagTx' = [flagTx EXCEPT ![a] = Len(txs) + 1]
  /\ UNCHANGED <<now, alerts>>

\* Variant: a small change is ignored while the flag of an earlier one is set.
ProcessSmallKeepsFirst(a, amt) ==
  /\ amt < SMALL_AMOUNT
  /\ Record(a, amt)
  /\ flagState' = [flagState EXCEPT ![a] = TRUE]
  /\ IF flagState[a] THEN UNCHANGED <<timers, timerState, flagTx>>
     ELSE /\ timers' = [timers EXCEPT ![a] = @ \cup {now + OneMinute}]
          /\ timerState' = [timerState EXCEPT ![a] = now + OneMinute]
          /\ flagTx' = [flagTx EXCEPT ![a] = Len(txs) + 1]
  /\ UNCHANGED <<now, alerts>>

\* processElement, a small change: set the flag and a timer, whatever timer an
\* earlier small change set.
ProcessSmall(a, amt) ==
  /\ amt < SMALL_AMOUNT
  /\ Record(a, amt)
  /\ flagState' = [flagState EXCEPT ![a] = TRUE]
  /\ timers' = [timers EXCEPT ![a] = @ \cup {now + OneMinute}]
  /\ timerState' = [timerState EXCEPT ![a] = now + OneMinute]
  /\ flagTx' = [flagTx EXCEPT ![a] = Len(txs) + 1]
  /\ UNCHANGED <<now, alerts>>

\* Variant: any other change clears the flag, as if only the change right after
\* a small one mattered.
ProcessOtherClears(a, amt) ==
  /\ amt >= SMALL_AMOUNT
  /\ ~(flagState[a] /\ amt > LARGE_AMOUNT)
  /\ Record(a, amt)
  /\ timers' = [timers EXCEPT ![a] = @ \ {timerState[a]}]
  /\ timerState' = [timerState EXCEPT ![a] = None]
  /\ flagState' = [flagState EXCEPT ![a] = FALSE]
  /\ flagTx' = [flagTx EXCEPT ![a] = 0]
  /\ UNCHANGED <<now, alerts>>

\* processElement, any other change.
ProcessOther(a, amt) ==
  /\ amt >= SMALL_AMOUNT
  /\ ~(flagState[a] /\ amt > LARGE_AMOUNT)
  /\ Record(a, amt)
  /\ UNCHANGED <<now, stateVars, flagTx, alerts>>

processElement(a, amt) ==
  ProcessAlert(a, amt) \/ ProcessSmall(a, amt) \/ ProcessOther(a, amt)

\* Variant: only the timer state is cleared.
onTimerKeepsFlag(a, t) ==
  /\ t \in timers[a] /\ t <= now
  /\ \A u \in timers[a] : t <= u
  /\ timers' = [timers EXCEPT ![a] = @ \ {t}]
  /\ timerState' = [timerState EXCEPT ![a] = None]
  /\ UNCHANGED <<now, flagState, histVars>>

\* onTimer for timestamp t: whichever timer it is, both states are cleared.
onTimer(a, t) ==
  /\ t \in timers[a] /\ t <= now
  /\ \A u \in timers[a] : t <= u
  /\ timers' = [timers EXCEPT ![a] = @ \ {t}]
  /\ timerState' = [timerState EXCEPT ![a] = None]
  /\ flagState' = [flagState EXCEPT ![a] = FALSE]
  /\ flagTx' = [flagTx EXCEPT ![a] = 0]
  /\ UNCHANGED <<now, txs, alerts>>

Fire == \E a \in Accounts : \E t \in timers[a] : onTimer(a, t)

\* A transaction is processed only while its timer can still fire.
WithinBounds == Len(txs) < MaxTx /\ now + OneMinute + MaxLag <= MaxTime

Next ==
  \/ Tick
  \/ \E a \in Accounts, amt \in Amounts : WithinBounds /\ processElement(a, amt)
  \/ Fire

Spec == Init /\ [][Next]_vars

\* Time passes and Flink fires what is due.
FairSpec == Spec /\ WF_vars(Tick) /\ WF_vars(Fire)

-----------------------------------------------------------------------------
(* Properties *)

\* The states hold what they are declared for, and the history is one of
\* transactions.
TypeOK ==
  /\ now \in Nat
  /\ flagState \in [Accounts -> BOOLEAN]
  /\ timerState \in [Accounts -> Nat \cup {None}]
  /\ timers \in [Accounts -> SUBSET Nat]
  /\ txs \in Seq(Transactions)
  /\ flagTx \in [Accounts -> Nat]
  /\ alerts \subseteq [small : Nat, large : Nat]

\* flagState and timerState are set and cleared together, and the timer they
\* name is pending: cleanUp never unboxes a null timer, and a flag that is set
\* has a timer that will clear it.
ArmedFlag ==
  \A a \in Accounts :
    /\ flagState[a] <=> timerState[a] # None
    /\ flagState[a] => timerState[a] \in timers[a]

\* An alert is about two changes of one account, a small and a later large one,
\* no more than a minute and the lateness of a timer apart, however the timers
\* of other small changes overlap.
AlertJustified ==
  \A x \in alerts :
    /\ x.small \in 1..(x.large - 1) /\ x.large <= Len(txs)
    /\ txs[x.small].account = txs[x.large].account
    /\ txs[x.small].amount < SMALL_AMOUNT /\ txs[x.large].amount > LARGE_AMOUNT
    /\ txs[x.large].at - txs[x.small].at <= OneMinute + MaxLag

\* A small change raises at most one alert.  KeepsPolicy says this and more, and is
\* what the run checks.
OneAlertPerSmall == \A x, y \in alerts : x.small = y.small => x = y

\* Change i is small, change j is large, both of one account, j within a minute
\* after i and no large change of the account between them.
Fraud(i, j) ==
  /\ i < j /\ txs[i].account = txs[j].account
  /\ txs[i].amount < SMALL_AMOUNT /\ txs[j].amount > LARGE_AMOUNT
  /\ txs[j].at - txs[i].at < OneMinute
  /\ \A k \in (i + 1)..(j - 1) :
       txs[k].account = txs[i].account => txs[k].amount <= LARGE_AMOUNT

\* No timer of an earlier small change of the account can fire after change i.
Fresh(i) ==
  \A k \in 1..(i - 1) :
    txs[k].account = txs[i].account /\ txs[k].amount < SMALL_AMOUNT
      => txs[k].at + OneMinute + MaxLag < txs[i].at

Alerted(j) == \E x \in alerts : x.large = j

\* A large change within a minute of a small one raises an alert, whatever comes
\* between them, when no older timer is left.
FreshFraudAlerted ==
  \A j \in 1..Len(txs) : \A i \in 1..(j - 1) :
    Fraud(i, j) /\ Fresh(i) => Alerted(j)

\* "remove flag after 1 minute": no flag stays set.
FlagExpires == \A a \in Accounts : flagState[a] ~> ~flagState[a]

\* The alerts keep a policy that knows of changes and times only: a large change
\* raises at most one alert, about the last small change of its account, and must
\* raise it when no older timer can have cleared the flag.
Policy ==
  INSTANCE FraudPolicy WITH
    Small <- SMALL_AMOUNT, Large <- LARGE_AMOUNT, Window <- OneMinute, Slack <- MaxLag

KeepsPolicy == Policy!Spec

-----------------------------------------------------------------------------
(* What the sample's readme says, and the code does not do *)

\* frauddetection/readme.md, 2.4: a large change that follows a small one of the
\* same account within a minute is recognised as fraud.
FraudAlerted ==
  \A j \in 1..Len(txs) : \A i \in 1..(j - 1) : Fraud(i, j) => Alerted(j)
=============================================================================
