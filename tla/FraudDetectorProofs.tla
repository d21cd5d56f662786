------------------------ MODULE FraudDetectorProofs -------------------------
(***************************************************************************)
(* What FraudDetector promises for all accounts, amounts, lengths of the   *)
(* minute and lateness of timers.                                          *)
(***************************************************************************)
EXTENDS FraudDetector, SequenceTheorems, TLAPS

\* Recording a transaction adds it at the end and changes none before it.
LEMMA RecordAppends ==
  ASSUME TypeOK, NEW a \in Accounts, NEW amt \in Amounts, Record(a, amt)
  PROVE  /\ txs' \in Seq(Transactions)
         /\ Len(txs) \in Nat /\ Len(txs') = Len(txs) + 1
         /\ txs'[Len(txs) + 1] = [account |-> a, amount |-> amt, at |-> now]
         /\ \A k \in 1..Len(txs) : txs'[k] = txs[k]
  <1>1. txs \in Seq(Transactions) BY DEF TypeOK
  <1>2. [account |-> a, amount |-> amt, at |-> now] \in Transactions
    BY DEF TypeOK, Transactions
  <1> QED BY <1>1, <1>2 DEF Record

\* Every step keeps the types.
LEMMA TypeStep == TypeOK /\ [Next]_vars => TypeOK'
  <1> SUFFICES ASSUME TypeOK, [Next]_vars PROVE TypeOK'
    OBVIOUS
  <1>1. CASE Tick
    BY <1>1 DEF Tick, TypeOK, stateVars, histVars
  <1>2. ASSUME NEW a \in Accounts, NEW amt \in Amounts, ProcessAlert(a, amt)
        PROVE  TypeOK'
    <2>1. Record(a, amt) BY <1>2 DEF ProcessAlert
    <2>2. txs' \in Seq(Transactions) /\ Len(txs) \in Nat BY <2>1, RecordAppends
    <2>3. alerts' \subseteq [small : Nat, large : Nat]
      BY <1>2, <2>2 DEF ProcessAlert, TypeOK
    <2> QED BY <1>2, <2>2, <2>3 DEF ProcessAlert, TypeOK
  <1>3. ASSUME NEW a \in Accounts, NEW amt \in Amounts, ProcessSmall(a, amt)
        PROVE  TypeOK'
    <2>1. Record(a, amt) BY <1>3 DEF ProcessSmall
    <2>2. txs' \in Seq(Transactions) /\ Len(txs) \in Nat BY <2>1, RecordAppends
    <2>3. now + OneMinute \in Nat BY DetectorAssumption DEF TypeOK
    <2> QED BY <1>3, <2>2, <2>3 DEF ProcessSmall, TypeOK
  <1>4. ASSUME NEW a \in Accounts, NEW amt \in Amounts, ProcessOther(a, amt)
        PROVE  TypeOK'
    <2>1. Record(a, amt) BY <1>4 DEF ProcessOther
    <2>2. txs' \in Seq(Transactions) BY <2>1, RecordAppends
    <2> QED BY <1>4, <2>2 DEF ProcessOther, TypeOK, stateVars
  <1>5. ASSUME NEW a \in Accounts, NEW t \in timers[a], onTimer(a, t)
        PROVE  TypeOK'
    BY <1>5 DEF onTimer, TypeOK
  <1>6. CASE UNCHANGED vars
    BY <1>6 DEF vars, stateVars, histVars, TypeOK
  <1> QED
    BY <1>1, <1>2, <1>3, <1>4, <1>5, <1>6 DEF Next, processElement, Fire

\* The types hold in every state.
THEOREM TypeCorrect == Spec => []TypeOK
  <1>1. Init => TypeOK
    BY EmptySeq DEF Init, TypeOK
  <1> QED BY <1>1, TypeStep, PTL DEF Spec

-----------------------------------------------------------------------------
(* The flag, its transaction and its timer *)

\* A flag that is set stands for a small transaction of its account, the timer
\* registered for that transaction is pending, and no timer is too late.
FlagOf(a) ==
  /\ flagState[a] => /\ flagTx[a] \in 1..Len(txs)
                     /\ txs[flagTx[a]].account = a
                     /\ txs[flagTx[a]].amount < SMALL_AMOUNT
                     /\ timerState[a] = txs[flagTx[a]].at + OneMinute
                     /\ timerState[a] \in timers[a]
  /\ ~flagState[a] => timerState[a] = None
  /\ \A t \in timers[a] : now <= t + MaxLag

\* The invariant behind the theorems below.
FlagInv == \A a \in Accounts : FlagOf(a)

\* The history only grew.
Grown == /\ Len(txs) \in Nat /\ Len(txs') \in Nat /\ Len(txs) <= Len(txs')
         /\ \A k \in 1..Len(txs) : txs'[k] = txs[k]

\* Recording and standing still both let the history grow.
LEMMA HistoryGrows ==
  ASSUME TypeOK, \/ UNCHANGED txs
                 \/ \E a \in Accounts, amt \in Amounts : Record(a, amt)
  PROVE  Grown
  <1>1. Len(txs) \in Nat BY LenProperties DEF TypeOK
  <1>2. CASE UNCHANGED txs BY <1>1, <1>2 DEF Grown
  <1>3. ASSUME NEW a \in Accounts, NEW amt \in Amounts, Record(a, amt) PROVE Grown
    <2>1. /\ Len(txs') = Len(txs) + 1
          /\ \A k \in 1..Len(txs) : txs'[k] = txs[k]
      BY <1>3, RecordAppends
    <2> QED BY <1>1, <2>1 DEF Grown
  <1> QED BY <1>2, <1>3

\* What an account that a step does not touch keeps.
LEMMA FlagKept ==
  ASSUME NEW a, FlagOf(a), Grown, now' = now,
         flagState'[a] = flagState[a], timerState'[a] = timerState[a],
         timers'[a] = timers[a], flagTx'[a] = flagTx[a]
  PROVE  FlagOf(a)'
  BY DEF FlagOf, Grown

\* What cleanUp and onTimer leave of an account.
LEMMA FlagCleared ==
  ASSUME NEW a, FlagOf(a), now' = now, flagState'[a] = FALSE, timerState'[a] = None,
         timers'[a] \subseteq timers[a]
  PROVE  FlagOf(a)'
  BY DEF FlagOf

\* Every step keeps the flag invariant.
LEMMA FlagStep == TypeOK /\ FlagInv /\ [Next]_vars => FlagInv'
  <1> SUFFICES ASSUME TypeOK, FlagInv, [Next]_vars, NEW b \in Accounts PROVE FlagOf(b)'
    BY DEF FlagInv
  <1>b. FlagOf(b) BY DEF FlagInv
  <1>1. CASE Tick
    <2>1. /\ now' = now + 1 /\ now \in Nat
          /\ \A t \in timers[b] : now < t + MaxLag /\ t \in Nat
          /\ UNCHANGED <<stateVars, histVars>>
      BY <1>1 DEF Tick, TypeOK
    <2>2. \A t \in timers[b] : now' <= t + MaxLag BY <2>1, DetectorAssumption
    <2> QED BY <1>b, <2>1, <2>2 DEF FlagOf, stateVars, histVars
  <1>2. ASSUME NEW a \in Accounts, NEW amt \in Amounts, ProcessAlert(a, amt)
        PROVE  FlagOf(b)'
    <2>1. Grown BY <1>2, HistoryGrows DEF ProcessAlert
    <2>2. now' = now BY <1>2 DEF ProcessAlert
    <2>3. CASE b # a
      BY <1>2, <1>b, <2>1, <2>2, <2>3, FlagKept DEF ProcessAlert, TypeOK
    <2>4. CASE b = a
      BY <1>2, <1>b, <2>2, <2>4, FlagCleared DEF ProcessAlert, TypeOK
    <2> QED BY <2>3, <2>4
  <1>3. ASSUME NEW a \in Accounts, NEW amt \in Amounts, ProcessSmall(a, amt)
        PROVE  FlagOf(b)'
    <2>1. Grown BY <1>3, HistoryGrows DEF ProcessSmall
    <2>2. now' = now /\ now \in Nat BY <1>3 DEF ProcessSmall, TypeOK
    <2>3. CASE b # a
      BY <1>3, <1>b, <2>1, <2>2, <2>3, FlagKept DEF ProcessSmall, TypeOK
    <2>4. CASE b = a
      <3>1. /\ flagTx'[b] = Len(txs) + 1
            /\ timerState'[b] = now + OneMinute
            /\ timers'[b] = timers[b] \cup {now + OneMinute}
            /\ flagState'[b] = TRUE
        BY <1>3, <2>4 DEF ProcessSmall, TypeOK
      <3>2. Record(a, amt) /\ amt < SMALL_AMOUNT BY <1>3 DEF ProcessSmall
      <3>3. /\ Len(txs) \in Nat /\ Len(txs') = Len(txs) + 1
            /\ txs'[Len(txs) + 1] = [account |-> a, amount |-> amt, at |-> now]
        BY <3>2, RecordAppends
      <3>4. /\ flagTx'[b] \in 1..Len(txs')
            /\ txs'[flagTx'[b]].account = b
            /\ txs'[flagTx'[b]].amount < SMALL_AMOUNT
            /\ timerState'[b] = txs'[flagTx'[b]].at + OneMinute
            /\ timerState'[b] \in timers'[b]
        BY <2>4, <3>1, <3>2, <3>3
      <3>5. \A t \in timers'[b] : now' <= t + MaxLag
        <4>1. \A t \in timers[b] : now <= t + MaxLag BY <1>b DEF FlagOf
        <4>2. now <= now + OneMinute + MaxLag BY <2>2, DetectorAssumption
        <4> QED BY <2>2, <3>1, <4>1, <4>2
      <3> QED BY <3>1, <3>4, <3>5 DEF FlagOf
    <2> QED BY <2>3, <2>4
  <1>4. ASSUME NEW a \in Accounts, NEW amt \in Amounts, ProcessOther(a, amt)
        PROVE  FlagOf(b)'
    <2>1. Grown BY <1>4, HistoryGrows DEF ProcessOther
    <2>2. UNCHANGED <<now, flagState, timerState, timers, flagTx>>
      BY <1>4 DEF ProcessOther, stateVars
    <2> QED BY <1>b, <2>1, <2>2, FlagKept
  <1>5. ASSUME NEW a \in Accounts, NEW t \in timers[a], onTimer(a, t)
        PROVE  FlagOf(b)'
    <2>1. Grown /\ now' = now BY <1>5, HistoryGrows DEF onTimer
    <2>2. CASE b # a
      BY <1>5, <1>b, <2>1, <2>2, FlagKept DEF onTimer, TypeOK
    <2>3. CASE b = a
      BY <1>5, <1>b, <2>1, <2>3, FlagCleared DEF onTimer, TypeOK
    <2> QED BY <2>2, <2>3
  <1>6. CASE UNCHANGED vars
    BY <1>6, <1>b DEF vars, stateVars, histVars, FlagOf
  <1> QED
    BY <1>1, <1>2, <1>3, <1>4, <1>5, <1>6 DEF Next, processElement, Fire

\* The flag invariant holds in every state.
THEOREM FlagCorrect == Spec => []FlagInv
  <1>1. Init => FlagInv BY DEF Init, FlagInv, FlagOf
  <1>2. Spec => []TypeOK BY TypeCorrect
  <1> QED BY <1>1, <1>2, FlagStep, PTL DEF Spec

\* cleanUp never unboxes a null timer, and every flag has a timer that clears it.
THEOREM FlagIsArmed == Spec => []ArmedFlag
  <1>1. TypeOK /\ FlagInv => ArmedFlag
    <2> SUFFICES ASSUME TypeOK, FlagInv, NEW a \in Accounts
                 PROVE  /\ flagState[a] <=> timerState[a] # None
                        /\ flagState[a] => timerState[a] \in timers[a]
      BY DEF ArmedFlag
    <2>1. timers[a] \subseteq Nat BY DEF TypeOK
    <2>2. flagState[a] => timerState[a] \in timers[a] BY DEF FlagInv, FlagOf
    <2>3. ~flagState[a] => timerState[a] = None BY DEF FlagInv, FlagOf
    <2>4. None \notin Nat BY DEF None
    <2> QED BY <2>1, <2>2, <2>3, <2>4
  <1> QED BY <1>1, TypeCorrect, FlagCorrect, PTL

\* An alert is never about changes further apart than a minute and the lateness
\* of a timer, whatever timers are pending.
THEOREM AlertsAreJustified == Spec => []AlertJustified
  <1>1. Init => AlertJustified
    BY DEF Init, AlertJustified
  <1>2. TypeOK /\ FlagInv /\ AlertJustified /\ [Next]_vars => AlertJustified'
    <2> SUFFICES ASSUME TypeOK, FlagInv, AlertJustified, [Next]_vars PROVE AlertJustified'
      OBVIOUS
    <2>t. Len(txs) \in Nat /\ \A k \in 1..Len(txs) : txs[k] \in Transactions
      BY ElementOfSeq, LenProperties DEF TypeOK
    <2>a. \A x \in alerts : x.small \in Nat /\ x.large \in Nat BY DEF TypeOK
    <2>1. ASSUME Grown, alerts' = alerts
          PROVE  AlertJustified'
      <3> SUFFICES ASSUME NEW x \in alerts
                   PROVE  /\ x.small \in 1..(x.large - 1) /\ x.large <= Len(txs')
                          /\ txs'[x.small].account = txs'[x.large].account
                          /\ txs'[x.small].amount < SMALL_AMOUNT
                          /\ txs'[x.large].amount > LARGE_AMOUNT
                          /\ txs'[x.large].at - txs'[x.small].at <= OneMinute + MaxLag
        BY <2>1 DEF AlertJustified
      <3>1. x.small \in 1..Len(txs) /\ x.large \in 1..Len(txs)
        BY <2>t, <2>a DEF AlertJustified
      <3>2. txs'[x.small] = txs[x.small] /\ txs'[x.large] = txs[x.large]
        BY <2>1, <3>1 DEF Grown
      <3> QED BY <2>1, <2>t, <2>a, <3>2 DEF AlertJustified, Grown
    <2>2. ASSUME NEW a \in Accounts, NEW amt \in Amounts, ProcessAlert(a, amt)
          PROVE  AlertJustified'
      <3>1. /\ Len(txs') = Len(txs) + 1
            /\ txs'[Len(txs) + 1] = [account |-> a, amount |-> amt, at |-> now]
            /\ \A k \in 1..Len(txs) : txs'[k] = txs[k]
        BY <2>2, RecordAppends DEF ProcessAlert
      <3>2. /\ flagState[a] /\ amt > LARGE_AMOUNT
            /\ alerts' = alerts \cup {[small |-> flagTx[a], large |-> Len(txs) + 1]}
        BY <2>2 DEF ProcessAlert
      <3>3. ASSUME NEW x \in alerts
            PROVE  /\ x.small \in 1..(x.large - 1) /\ x.large <= Len(txs')
                   /\ txs'[x.small].account = txs'[x.large].account
                   /\ txs'[x.small].amount < SMALL_AMOUNT
                   /\ txs'[x.large].amount > LARGE_AMOUNT
                   /\ txs'[x.large].at - txs'[x.small].at <= OneMinute + MaxLag
        <4>1. x.small \in 1..Len(txs) /\ x.large \in 1..Len(txs)
          BY <2>t, <2>a DEF AlertJustified
        <4>2. txs'[x.small] = txs[x.small] /\ txs'[x.large] = txs[x.large]
          BY <3>1, <4>1
        <4> QED BY <2>t, <2>a, <3>1, <4>2 DEF AlertJustified
      <3>4. /\ flagTx[a] \in 1..Len(txs)
            /\ txs'[flagTx[a]] = txs[flagTx[a]]
            /\ txs[flagTx[a]].account = a
            /\ txs[flagTx[a]].amount < SMALL_AMOUNT
            /\ timerState[a] = txs[flagTx[a]].at + OneMinute
            /\ now <= timerState[a] + MaxLag
        BY <3>1, <3>2 DEF FlagInv, FlagOf
      <3>5. now - txs[flagTx[a]].at <= OneMinute + MaxLag
        <4>1. now \in Nat /\ txs[flagTx[a]].at \in Nat
          BY <2>t, <3>4 DEF TypeOK, Transactions
        <4>2. OneMinute \in Nat /\ MaxLag \in Nat BY DetectorAssumption
        <4>3. now <= txs[flagTx[a]].at + OneMinute + MaxLag BY <3>4
        <4> QED BY <4>1, <4>2, <4>3
      <3>6. ASSUME NEW x, x = [small |-> flagTx[a], large |-> Len(txs) + 1]
            PROVE  /\ x.small \in 1..(x.large - 1) /\ x.large <= Len(txs')
                   /\ txs'[x.small].account = txs'[x.large].account
                   /\ txs'[x.small].amount < SMALL_AMOUNT
                   /\ txs'[x.large].amount > LARGE_AMOUNT
                   /\ txs'[x.large].at - txs'[x.small].at <= OneMinute + MaxLag
        BY <2>t, <3>1, <3>2, <3>4, <3>5, <3>6
      <3> QED BY <3>2, <3>3, <3>6 DEF AlertJustified
    <2>3. ASSUME NEW a \in Accounts, NEW amt \in Amounts,
                 ProcessSmall(a, amt) \/ ProcessOther(a, amt)
          PROVE  AlertJustified'
      <3>1. Record(a, amt) /\ alerts' = alerts BY <2>3 DEF ProcessSmall, ProcessOther
      <3>2. Grown BY <3>1, HistoryGrows
      <3> QED BY <2>1, <3>1, <3>2
    <2>4. CASE UNCHANGED <<txs, alerts>>
      BY <2>1, <2>4, HistoryGrows
    <2> QED
      BY <2>2, <2>3, <2>4
      DEF Next, processElement, Fire, Tick, onTimer, vars, stateVars, histVars
  <1> QED BY <1>1, <1>2, TypeCorrect, FlagCorrect, PTL DEF Spec

\* The transaction a set flag stands for has raised no alert yet.
FlagUnused == \A x \in alerts, a \in Accounts : flagState[a] => flagTx[a] # x.small

\* A small change raises at most one alert, because cleanUp forgets it.
THEOREM AtMostOneAlert == Spec => []OneAlertPerSmall
  <1> DEFINE Inv == FlagUnused /\ OneAlertPerSmall
  <1>1. Init => Inv
    BY DEF Init, FlagUnused, OneAlertPerSmall
  <1>2. TypeOK /\ FlagInv /\ AlertJustified /\ Inv /\ [Next]_vars => Inv'
    <2> SUFFICES ASSUME TypeOK, FlagInv, AlertJustified, Inv, [Next]_vars PROVE Inv'
      OBVIOUS
    <2>t. Len(txs) \in Nat BY LenProperties DEF TypeOK
    <2>1. ASSUME NEW a \in Accounts, NEW amt \in Amounts, ProcessAlert(a, amt)
          PROVE  Inv'
      <3>1. /\ flagState[a]
            /\ alerts' = alerts \cup {[small |-> flagTx[a], large |-> Len(txs) + 1]}
        BY <2>1 DEF ProcessAlert
      <3>2. \A b \in Accounts :
              /\ flagState'[b] => flagState[b] /\ b # a
              /\ b # a => flagTx'[b] = flagTx[b]
        BY <2>1 DEF ProcessAlert, TypeOK
      <3>3. \A b \in Accounts : flagState[b] /\ b # a => flagTx[b] # flagTx[a]
        BY <3>1 DEF FlagInv, FlagOf
      <3>4. FlagUnused'
        BY <3>1, <3>2, <3>3 DEF FlagUnused
      <3>5. \A x \in alerts : x.small # flagTx[a]
        BY <3>1 DEF FlagUnused
      <3>6. OneAlertPerSmall'
        BY <3>1, <3>5 DEF OneAlertPerSmall
      <3> QED BY <3>4, <3>6
    <2>2. ASSUME NEW a \in Accounts, NEW amt \in Amounts, ProcessSmall(a, amt)
          PROVE  Inv'
      <3>1. alerts' = alerts BY <2>2 DEF ProcessSmall
      <3>2. \A b \in Accounts :
              IF b = a THEN flagTx'[b] = Len(txs) + 1
                       ELSE flagTx'[b] = flagTx[b] /\ flagState'[b] = flagState[b]
        BY <2>2 DEF ProcessSmall, TypeOK
      <3>3. \A x \in alerts : x.small # Len(txs) + 1
        <4> SUFFICES ASSUME NEW x \in alerts PROVE x.small # Len(txs) + 1
          OBVIOUS
        <4>1. x.small \in Nat /\ x.large \in Nat BY DEF TypeOK
        <4>2. x.small < x.large /\ x.large <= Len(txs) BY <4>1 DEF AlertJustified
        <4> QED BY <2>t, <4>1, <4>2
      <3>4. FlagUnused'
        BY <3>1, <3>2, <3>3 DEF FlagUnused
      <3> QED BY <3>1, <3>4 DEF OneAlertPerSmall
    <2>3. ASSUME NEW a \in Accounts, NEW t \in timers[a], onTimer(a, t)
          PROVE  Inv'
      <3>1. alerts' = alerts BY <2>3 DEF onTimer
      <3>2. \A b \in Accounts :
              flagState'[b] => flagState[b] /\ flagTx'[b] = flagTx[b]
        BY <2>3 DEF onTimer, TypeOK
      <3> QED BY <3>1, <3>2 DEF FlagUnused, OneAlertPerSmall
    <2>4. CASE UNCHANGED <<flagState, flagTx, alerts>>
      BY <2>4 DEF FlagUnused, OneAlertPerSmall
    <2> QED
      BY <2>1, <2>2, <2>3, <2>4
      DEF Next, processElement, ProcessOther, Fire, Tick, vars, stateVars, histVars
  <1>3. Inv => OneAlertPerSmall OBVIOUS
  <1> QED
    BY <1>1, <1>2, <1>3, TypeCorrect, FlagCorrect, AlertsAreJustified, PTL DEF Spec
-----------------------------------------------------------------------------
(* A fraud that no older timer disturbs *)

\* Timers were registered for small changes, and no change is of the future.
OnClock ==
  /\ \A k \in 1..Len(txs) : txs[k].at <= now
  /\ \A a \in Accounts : \A t \in timers[a] :
       \E k \in 1..Len(txs) :
         /\ txs[k].account = a /\ txs[k].amount < SMALL_AMOUNT
         /\ t = txs[k].at + OneMinute

\* A large change of the account would make fraud of change i, which is fresh.
Watching(a, i) ==
  /\ txs[i].account = a /\ txs[i].amount < SMALL_AMOUNT /\ Fresh(i)
  /\ \A k \in (i + 1)..Len(txs) : txs[k].account = a => txs[k].amount <= LARGE_AMOUNT

\* Then no timer fires within the minute, and the flag is set until it is over.
Kept(a, i) ==
  /\ \A t \in timers[a] : t >= txs[i].at + OneMinute
  /\ now < txs[i].at + OneMinute => flagState[a]

WatchInv ==
  /\ OnClock
  /\ \A a \in Accounts : \A i \in 1..Len(txs) : Watching(a, i) => Kept(a, i)

LEMMA TransactionTypes ==
  ASSUME TypeOK
  PROVE  /\ Len(txs) \in Nat
         /\ \A k \in 1..Len(txs) : txs[k].at \in Nat /\ txs[k].amount \in Nat
  <1>1. Len(txs) \in Nat /\ \A k \in 1..Len(txs) : txs[k] \in Transactions
    BY ElementOfSeq, LenProperties DEF TypeOK
  <1> QED BY <1>1, DetectorAssumption DEF Transactions

\* Only a change that was already watched is watched later on.
LEMMA WatchedBefore ==
  ASSUME TypeOK, Grown, NEW a, NEW i \in 1..Len(txs), Watching(a, i)'
  PROVE  Watching(a, i) /\ txs'[i] = txs[i]
  <1>1. /\ Len(txs) \in Nat /\ Len(txs') \in Nat /\ Len(txs) <= Len(txs')
        /\ \A k \in 1..Len(txs) : txs'[k] = txs[k]
    BY DEF Grown
  <1>2. \A k \in 1..(i - 1) : k \in 1..Len(txs) BY <1>1
  <1>3. \A k \in (i + 1)..Len(txs) : k \in (i + 1)..Len(txs') /\ k \in 1..Len(txs) BY <1>1
  <1>4. Fresh(i) BY <1>1, <1>2 DEF Watching, Fresh
  <1> QED BY <1>1, <1>3, <1>4 DEF Watching

\* Timers that are left are those of small changes.
LEMMA ClockStep ==
  ASSUME TypeOK, OnClock, Grown, now' >= now, now' \in Nat,
         \A a \in Accounts : timers'[a] \subseteq timers[a],
         \A k \in 1..Len(txs') : k \in 1..Len(txs) \/ txs'[k].at <= now'
  PROVE  OnClock'
  <1>1. \A k \in 1..Len(txs) : txs[k].at \in Nat BY TransactionTypes
  <1>2. \A k \in 1..Len(txs) : k \in 1..Len(txs') /\ txs'[k] = txs[k] BY DEF Grown
  <1>3. now \in Nat BY DEF TypeOK
  <1>4. ASSUME NEW k \in 1..Len(txs') PROVE txs'[k].at <= now'
    <2>1. CASE k \in 1..Len(txs) BY <1>1, <1>2, <1>3, <2>1 DEF OnClock
    <2> QED BY <2>1
  <1>5. ASSUME NEW a \in Accounts, NEW t \in timers'[a]
        PROVE  \E k \in 1..Len(txs') :
                 /\ txs'[k].account = a /\ txs'[k].amount < SMALL_AMOUNT
                 /\ t = txs'[k].at + OneMinute
    <2>1. PICK k \in 1..Len(txs) : /\ txs[k].account = a /\ txs[k].amount < SMALL_AMOUNT
                                   /\ t = txs[k].at + OneMinute
      BY DEF OnClock
    <2> QED BY <1>2, <2>1
  <1> QED BY <1>4, <1>5 DEF OnClock

\* Every step keeps the watch.
LEMMA WatchStep == TypeOK /\ FlagInv /\ WatchInv /\ [Next]_vars => WatchInv'
  <1> SUFFICES ASSUME TypeOK, FlagInv, WatchInv, [Next]_vars PROVE WatchInv'
    OBVIOUS
  <1>0. /\ Len(txs) \in Nat /\ now \in Nat /\ OneMinute \in Nat /\ MaxLag \in Nat
        /\ \A k \in 1..Len(txs) : txs[k].at \in Nat /\ txs[k].amount \in Int
        /\ \A a \in Accounts : timers[a] \subseteq Nat
    BY TransactionTypes, DetectorAssumption DEF TypeOK
  <1>1. CASE Tick
    <2>1. now' = now + 1 /\ UNCHANGED <<stateVars, histVars>> BY <1>1 DEF Tick
    <2>2. Grown BY <1>0, <2>1 DEF Grown, histVars
    <2>3. OnClock' BY <1>0, <2>1, <2>2, ClockStep DEF WatchInv, stateVars, histVars
    <2>4. ASSUME NEW a \in Accounts, NEW i \in 1..Len(txs), Watching(a, i)'
          PROVE  Kept(a, i)'
      <3>1. Kept(a, i) /\ txs'[i] = txs[i] BY <2>2, <2>4, WatchedBefore DEF WatchInv
      <3> QED BY <1>0, <2>1, <3>1 DEF Kept, stateVars
    <2> QED BY <2>1, <2>3, <2>4 DEF WatchInv, histVars
  <1>2. ASSUME NEW a \in Accounts, NEW amt \in Amounts, ProcessAlert(a, amt)
        PROVE  WatchInv'
    <2>1. Record(a, amt) /\ amt > LARGE_AMOUNT /\ now' = now BY <1>2 DEF ProcessAlert
    <2>2. /\ Grown /\ Len(txs') = Len(txs) + 1
          /\ txs'[Len(txs) + 1] = [account |-> a, amount |-> amt, at |-> now]
      BY <2>1, HistoryGrows, RecordAppends
    <2>3. \A b \in Accounts : timers'[b] \subseteq timers[b] BY <1>2 DEF ProcessAlert, TypeOK
    <2>4. OnClock' BY <1>0, <2>1, <2>2, <2>3, ClockStep DEF WatchInv
    <2>5. ASSUME NEW b \in Accounts, NEW i \in 1..Len(txs'), Watching(b, i)'
          PROVE  Kept(b, i)'
      <3>1. i \in 1..Len(txs)
        BY <1>0, <2>1, <2>2, <2>5, DetectorAssumption
        DEF Watching, SMALL_AMOUNT, LARGE_AMOUNT
      <3>2. b # a
        <4>1. Len(txs) + 1 \in (i + 1)..Len(txs') BY <1>0, <2>2, <3>1
        <4>2. amt \in Nat BY DetectorAssumption
        <4> QED BY <2>1, <2>2, <2>5, <4>1, <4>2 DEF Watching, LARGE_AMOUNT
      <3>3. flagState'[b] = flagState[b] /\ timers'[b] = timers[b]
        BY <1>2, <3>2 DEF ProcessAlert, TypeOK
      <3>4. Kept(b, i) /\ txs'[i] = txs[i] BY <2>2, <2>5, <3>1, WatchedBefore DEF WatchInv
      <3> QED BY <2>1, <3>3, <3>4 DEF Kept
    <2> QED BY <2>4, <2>5 DEF WatchInv
  <1>3. ASSUME NEW a \in Accounts, NEW amt \in Amounts, ProcessSmall(a, amt)
        PROVE  WatchInv'
    <2>1. Record(a, amt) /\ amt < SMALL_AMOUNT /\ now' = now BY <1>3 DEF ProcessSmall
    <2>2. /\ Grown /\ Len(txs') = Len(txs) + 1
          /\ txs'[Len(txs) + 1] = [account |-> a, amount |-> amt, at |-> now]
          /\ \A k \in 1..Len(txs) : k \in 1..Len(txs') /\ txs'[k] = txs[k]
      BY <1>0, <2>1, HistoryGrows, RecordAppends DEF Grown
    <2>3. \A b \in Accounts :
            /\ timers'[b] = IF b = a THEN timers[b] \cup {now + OneMinute} ELSE timers[b]
            /\ flagState'[b] = IF b = a THEN TRUE ELSE flagState[b]
      BY <1>3 DEF ProcessSmall, TypeOK
    <2>4. OnClock'
      <3>1. \A k \in 1..Len(txs') : txs'[k].at <= now' BY <1>0, <2>1, <2>2 DEF WatchInv, OnClock
      <3>2. ASSUME NEW b \in Accounts, NEW t \in timers'[b]
            PROVE  \E k \in 1..Len(txs') :
                     /\ txs'[k].account = b /\ txs'[k].amount < SMALL_AMOUNT
                     /\ t = txs'[k].at + OneMinute
        <4>1. CASE t \in timers[b] BY <2>2, <4>1 DEF WatchInv, OnClock
        <4>2. CASE b = a /\ t = now + OneMinute
          <5>1. Len(txs) + 1 \in 1..Len(txs') BY <1>0, <2>2
          <5> QED BY <2>1, <2>2, <4>2, <5>1
        <4> QED BY <2>3, <4>1, <4>2
      <3> QED BY <3>1, <3>2 DEF OnClock
    <2>5. ASSUME NEW b \in Accounts, NEW i \in 1..Len(txs'), Watching(b, i)'
          PROVE  Kept(b, i)'
      <3>1. CASE i \in 1..Len(txs)
        <4>1. Kept(b, i) /\ txs'[i] = txs[i] BY <2>2, <2>5, <3>1, WatchedBefore DEF WatchInv
        <4>2. now + OneMinute >= txs[i].at + OneMinute BY <1>0, <3>1 DEF WatchInv, OnClock
        <4>3. \A t \in timers'[b] : t >= txs'[i].at + OneMinute BY <2>3, <4>1, <4>2 DEF Kept
        <4>4. now' < txs'[i].at + OneMinute => flagState'[b] BY <2>1, <2>3, <4>1 DEF Kept
        <4> QED BY <4>3, <4>4 DEF Kept
      <3>2. CASE i = Len(txs) + 1
        <4>1. b = a /\ Fresh(i)' /\ txs'[i].at = now BY <2>2, <2>5, <3>2 DEF Watching
        <4>2. ASSUME NEW t \in timers[a] PROVE FALSE
          <5>1. PICK k \in 1..Len(txs) : /\ txs[k].account = a /\ txs[k].amount < SMALL_AMOUNT
                                         /\ t = txs[k].at + OneMinute
            BY DEF WatchInv, OnClock
          <5>2. k \in 1..(i - 1) /\ txs'[k] = txs[k] /\ txs'[i].account = a
            BY <1>0, <2>2, <3>2, <5>1
          <5>3. txs[k].at + OneMinute + MaxLag < now BY <4>1, <5>1, <5>2 DEF Fresh
          <5>4. now <= t + MaxLag BY DEF FlagInv, FlagOf
          <5>5. now \in Nat /\ txs[k].at \in Nat /\ OneMinute \in Nat /\ MaxLag \in Nat
            BY <1>0, TransactionTypes, DetectorAssumption
          <5>6. now <= txs[k].at + OneMinute + MaxLag BY <5>1, <5>4
          <5> QED BY <5>3, <5>5, <5>6
        <4>3. timers'[b] = {now + OneMinute} /\ flagState'[b] BY <2>3, <4>1, <4>2
        <4> QED BY <1>0, <4>1, <4>3 DEF Kept
      <3> QED BY <1>0, <2>2, <3>1, <3>2
    <2> QED BY <2>4, <2>5 DEF WatchInv
  <1>4. ASSUME NEW a \in Accounts, NEW amt \in Amounts, ProcessOther(a, amt)
        PROVE  WatchInv'
    <2>1. /\ Record(a, amt) /\ amt >= SMALL_AMOUNT
          /\ UNCHANGED <<now, flagState, timerState, timers>>
      BY <1>4 DEF ProcessOther, stateVars
    <2>2. /\ Grown /\ Len(txs') = Len(txs) + 1
          /\ txs'[Len(txs) + 1] = [account |-> a, amount |-> amt, at |-> now]
      BY <2>1, HistoryGrows, RecordAppends
    <2>3. OnClock' BY <1>0, <2>1, <2>2, ClockStep DEF WatchInv
    <2>4. ASSUME NEW b \in Accounts, NEW i \in 1..Len(txs'), Watching(b, i)'
          PROVE  Kept(b, i)'
      <3>1. amt \in Nat BY DetectorAssumption
      <3>2. i \in 1..Len(txs) BY <1>0, <2>1, <2>2, <2>4, <3>1 DEF Watching, SMALL_AMOUNT
      <3>3. Kept(b, i) /\ txs'[i] = txs[i] BY <2>2, <2>4, <3>2, WatchedBefore DEF WatchInv
      <3> QED BY <2>1, <3>3 DEF Kept
    <2> QED BY <2>3, <2>4 DEF WatchInv
  <1>5. ASSUME NEW a \in Accounts, NEW t \in timers[a], onTimer(a, t)
        PROVE  WatchInv'
    <2>1. t <= now /\ UNCHANGED <<now, txs>> BY <1>5 DEF onTimer
    <2>2. Grown BY <1>0, <2>1 DEF Grown
    <2>3. \A b \in Accounts :
            /\ timers'[b] \subseteq timers[b]
            /\ b # a => flagState'[b] = flagState[b]
      BY <1>5 DEF onTimer, TypeOK
    <2>4. OnClock'
      <3>1. \A k \in 1..Len(txs') : k \in 1..Len(txs) BY <2>1
      <3>2. now' >= now /\ now' \in Nat BY <1>0, <2>1
      <3>3. \A b \in Accounts : timers'[b] \subseteq timers[b] BY <2>3
      <3> QED BY <2>2, <3>1, <3>2, <3>3, ClockStep DEF WatchInv
    <2>5. ASSUME NEW b \in Accounts, NEW i \in 1..Len(txs), Watching(b, i)'
          PROVE  Kept(b, i)'
      <3>1. Kept(b, i) /\ txs'[i] = txs[i] BY <2>2, <2>5, WatchedBefore DEF WatchInv
      <3>2. b = a => now >= txs[i].at + OneMinute BY <1>0, <2>1, <3>1 DEF Kept
      <3>3. \A u \in timers'[b] : u >= txs'[i].at + OneMinute BY <2>3, <3>1 DEF Kept
      <3>4. now' < txs'[i].at + OneMinute => flagState'[b]
        <4>1. CASE b = a BY <1>0, <2>1, <3>1, <3>2, <4>1
        <4>2. CASE b # a BY <2>1, <2>3, <3>1, <4>2 DEF Kept
        <4> QED BY <4>1, <4>2
      <3> QED BY <3>3, <3>4 DEF Kept
    <2> QED BY <2>1, <2>4, <2>5 DEF WatchInv
  <1>6. CASE UNCHANGED vars
    <2>1. UNCHANGED <<now, flagState, timerState, timers, txs>>
      BY <1>6 DEF vars, stateVars, histVars
    <2>2. OnClock' BY <2>1 DEF WatchInv, OnClock
    <2>3. \A i : Fresh(i)' = Fresh(i) BY <2>1 DEF Fresh
    <2>4. \A a, i : Watching(a, i)' = Watching(a, i) BY <2>1, <2>3 DEF Watching
    <2>5. \A a, i : Kept(a, i)' = Kept(a, i) BY <2>1 DEF Kept
    <2> QED BY <2>1, <2>2, <2>4, <2>5 DEF WatchInv
  <1> QED
    BY <1>1, <1>2, <1>3, <1>4, <1>5, <1>6 DEF Next, processElement, Fire

\* A large change within a minute of a small one raises an alert, whatever comes
\* between them, when no timer of an earlier small change is left to clear the flag.
THEOREM FreshIsAlerted == Spec => []FreshFraudAlerted
  <1>1. Init => WatchInv /\ FreshFraudAlerted
    BY DEF Init, WatchInv, OnClock, FreshFraudAlerted
  <1>2. TypeOK /\ WatchInv /\ FreshFraudAlerted /\ [Next]_vars => FreshFraudAlerted'
    <2> SUFFICES ASSUME TypeOK, WatchInv, FreshFraudAlerted, [Next]_vars
                 PROVE  FreshFraudAlerted'
      OBVIOUS
    <2>0. /\ Len(txs) \in Nat
          /\ \A k \in 1..Len(txs) : txs[k].at \in Nat /\ txs[k].amount \in Nat
      BY TransactionTypes
    <2>1. ASSUME Grown, alerts \subseteq alerts', NEW j \in 1..Len(txs), NEW i \in 1..(j - 1),
                 Fraud(i, j)', Fresh(i)'
          PROVE  Alerted(j)'
      <3>1. \A k \in 1..j : txs'[k] = txs[k] BY <2>0, <2>1 DEF Grown
      <3>2. /\ i \in 1..j /\ j \in 1..j
            /\ \A k \in (i + 1)..(j - 1) : k \in 1..j
            /\ \A k \in 1..(i - 1) : k \in 1..j
        <4>1. i \in Nat /\ j \in Nat /\ i <= j BY <2>0
        <4> QED BY <4>1
      <3>3. Fraud(i, j)
        <4>1. txs'[i] = txs[i] /\ txs'[j] = txs[j] BY <3>1, <3>2
        <4>2. \A k \in (i + 1)..(j - 1) : txs'[k] = txs[k] BY <3>1, <3>2
        <4> QED BY <2>1, <4>1, <4>2 DEF Fraud
      <3>4. Fresh(i)
        <4>1. txs'[i] = txs[i] BY <3>1, <3>2
        <4>2. \A k \in 1..(i - 1) : txs'[k] = txs[k] BY <3>1, <3>2
        <4> QED BY <2>1, <4>1, <4>2 DEF Fresh
      <3> QED BY <2>1, <3>3, <3>4 DEF FreshFraudAlerted, Alerted
    <2>2. CASE UNCHANGED <<txs, alerts>>
      <3>1. Grown BY <2>0, <2>2 DEF Grown
      <3> QED BY <2>1, <2>2, <3>1 DEF FreshFraudAlerted
    <2>3. ASSUME NEW a \in Accounts, NEW amt \in Amounts, processElement(a, amt)
          PROVE  FreshFraudAlerted'
      <3>1. Record(a, amt) /\ alerts \subseteq alerts'
        BY <2>3 DEF processElement, ProcessAlert, ProcessSmall, ProcessOther
      <3>2. /\ Grown /\ Len(txs') = Len(txs) + 1
            /\ txs'[Len(txs) + 1] = [account |-> a, amount |-> amt, at |-> now]
            /\ \A k \in 1..Len(txs) : txs'[k] = txs[k]
        BY <3>1, HistoryGrows, RecordAppends
      <3>3. ASSUME NEW n, n = Len(txs) + 1, NEW i \in 1..Len(txs), Fraud(i, n)', Fresh(i)'
            PROVE  Alerted(n)'
        <4>1. /\ txs[i].account = a /\ txs[i].amount < SMALL_AMOUNT /\ amt > LARGE_AMOUNT
              /\ now - txs[i].at < OneMinute
          <5>1. txs'[n] = [account |-> a, amount |-> amt, at |-> now] /\ txs'[i] = txs[i]
            BY <3>2, <3>3
          <5> QED BY <3>3, <5>1 DEF Fraud
        <4>2. \A k \in (i + 1)..Len(txs) : txs[k].account = a => txs[k].amount <= LARGE_AMOUNT
          <5>1. ASSUME NEW k \in (i + 1)..Len(txs), txs[k].account = a
                PROVE  txs[k].amount <= LARGE_AMOUNT
            <6>1. k \in 1..Len(txs) /\ k \in (i + 1)..(n - 1) BY <2>0, <3>3
            <6>2. txs'[k] = txs[k] /\ txs'[i] = txs[i] BY <3>2, <6>1
            <6> QED BY <3>3, <4>1, <5>1, <6>1, <6>2 DEF Fraud
          <5> QED BY <5>1
        <4>3. Fresh(i)
          <5>1. txs'[i] = txs[i] /\ \A k \in 1..(i - 1) : txs'[k] = txs[k]
            <6>1. i \in Nat /\ i <= Len(txs) BY <2>0
            <6>2. \A k \in 1..(i - 1) : k \in 1..Len(txs) BY <2>0, <6>1
            <6> QED BY <3>2, <6>2
          <5> QED BY <3>3, <5>1 DEF Fresh
        <4>4. Kept(a, i) BY <4>1, <4>2, <4>3 DEF WatchInv, Watching
        <4>5. now < txs[i].at + OneMinute
          <5>1. now \in Nat /\ txs[i].at \in Nat /\ OneMinute \in Nat
            BY <2>0, DetectorAssumption DEF TypeOK
          <5> QED BY <4>1, <5>1
        <4>6. flagState[a] BY <4>4, <4>5 DEF Kept
        <4>7. amt \in Nat BY DetectorAssumption
        <4>8. ProcessAlert(a, amt)
          BY <2>3, <4>1, <4>6, <4>7
          DEF processElement, ProcessSmall, ProcessOther, SMALL_AMOUNT, LARGE_AMOUNT
        <4>9. [small |-> flagTx[a], large |-> Len(txs) + 1] \in alerts'
          BY <4>8 DEF ProcessAlert
        <4> QED BY <3>3, <4>9 DEF Alerted
      <3>4. ASSUME NEW j \in 1..Len(txs'), NEW i \in 1..(j - 1), Fraud(i, j)', Fresh(i)'
            PROVE  Alerted(j)'
        <4>1. CASE j \in 1..Len(txs) BY <2>1, <3>1, <3>2, <3>4, <4>1
        <4>2. CASE j = Len(txs) + 1
          <5>1. i \in 1..Len(txs) BY <2>0, <4>2
          <5> QED BY <3>3, <3>4, <4>2, <5>1
        <4> QED BY <2>0, <3>2, <4>1, <4>2
      <3> QED BY <3>4 DEF FreshFraudAlerted
    <2> QED
      BY <2>2, <2>3 DEF Next, Fire, Tick, onTimer, vars, histVars
  <1> QED BY <1>1, <1>2, WatchStep, TypeCorrect, FlagCorrect, PTL DEF Spec
-----------------------------------------------------------------------------
(* FraudDetector implements FraudPolicy *)

\* While the flag of an account is set, every change of it since the small one
\* that set the flag was neither small nor large.
Between(a) ==
  \A k \in 1..Len(txs) :
    k > flagTx[a] /\ txs[k].account = a => txs[k].amount \in SMALL_AMOUNT..LARGE_AMOUNT

StandsOpen == \A a \in Accounts : flagState[a] => Between(a)

\* A change of another account, or a middling one, is no reason to forget.
LEMMA StillOpen ==
  ASSUME TypeOK, NEW a \in Accounts, NEW amt \in Amounts, Record(a, amt),
         NEW b \in Accounts, Between(b), flagTx'[b] = flagTx[b],
         b = a => amt \in SMALL_AMOUNT..LARGE_AMOUNT
  PROVE  Between(b)'
  <1>1. /\ Len(txs) \in Nat /\ Len(txs') = Len(txs) + 1
        /\ txs'[Len(txs) + 1] = [account |-> a, amount |-> amt, at |-> now]
        /\ \A k \in 1..Len(txs) : txs'[k] = txs[k]
    BY RecordAppends
  <1>2. ASSUME NEW k \in 1..Len(txs'), k > flagTx'[b], txs'[k].account = b
        PROVE  txs'[k].amount \in SMALL_AMOUNT..LARGE_AMOUNT
    <2>1. CASE k \in 1..Len(txs) BY <1>1, <1>2, <2>1 DEF Between
    <2>2. CASE k = Len(txs) + 1 BY <1>1, <1>2, <2>2
    <2> QED BY <1>1, <2>1, <2>2
  <1> QED BY <1>2 DEF Between

LEMMA OpenStep == TypeOK /\ StandsOpen /\ [Next]_vars => StandsOpen'
  <1> SUFFICES ASSUME TypeOK, StandsOpen, [Next]_vars, NEW b \in Accounts, flagState'[b]
               PROVE  Between(b)'
    BY DEF StandsOpen
  <1>1. ASSUME NEW a \in Accounts, NEW amt \in Amounts, ProcessAlert(a, amt)
        PROVE  Between(b)'
    <2>1. b # a /\ flagState[b] /\ flagTx'[b] = flagTx[b] /\ Record(a, amt)
      BY <1>1 DEF ProcessAlert, TypeOK
    <2> QED BY <2>1, StillOpen DEF StandsOpen
  <1>2. ASSUME NEW a \in Accounts, NEW amt \in Amounts, ProcessSmall(a, amt)
        PROVE  Between(b)'
    <2>1. Record(a, amt) BY <1>2 DEF ProcessSmall
    <2>2. CASE b = a
      <3>1. flagTx'[b] = Len(txs) + 1 BY <1>2, <2>2 DEF ProcessSmall, TypeOK
      <3>2. Len(txs) \in Nat /\ Len(txs') = Len(txs) + 1 BY <2>1, RecordAppends
      <3> QED BY <3>1, <3>2 DEF Between
    <2>3. CASE b # a
      <3>1. flagState[b] /\ flagTx'[b] = flagTx[b]
        BY <1>2, <2>3 DEF ProcessSmall, TypeOK
      <3> QED BY <2>1, <2>3, <3>1, StillOpen DEF StandsOpen
    <2> QED BY <2>2, <2>3
  <1>3. ASSUME NEW a \in Accounts, NEW amt \in Amounts, ProcessOther(a, amt)
        PROVE  Between(b)'
    <2>1. Record(a, amt) /\ flagState[b] /\ flagTx'[b] = flagTx[b]
      BY <1>3 DEF ProcessOther, stateVars
    <2>2. b = a => amt \in SMALL_AMOUNT..LARGE_AMOUNT
      <3>1. amt \in Nat BY DetectorAssumption
      <3>2. amt >= SMALL_AMOUNT /\ ~(flagState[a] /\ amt > LARGE_AMOUNT)
        BY <1>3 DEF ProcessOther
      <3>3. b = a => ~(amt > LARGE_AMOUNT) BY <2>1, <3>2
      <3> QED BY <3>1, <3>2, <3>3 DEF SMALL_AMOUNT, LARGE_AMOUNT
    <2> QED BY <2>1, <2>2, StillOpen DEF StandsOpen
  <1>4. ASSUME NEW a \in Accounts, NEW t \in timers[a], onTimer(a, t)
        PROVE  Between(b)'
    <2>1. flagState[b] /\ flagTx'[b] = flagTx[b] /\ txs' = txs
      BY <1>4 DEF onTimer, TypeOK
    <2> QED BY <2>1 DEF StandsOpen, Between
  <1>5. CASE UNCHANGED <<flagState, flagTx, txs>>
    BY <1>5 DEF StandsOpen, Between
  <1> QED
    BY <1>1, <1>2, <1>3, <1>4, <1>5
    DEF Next, processElement, Fire, Tick, vars, stateVars, histVars

\* An alert is one that the policy allows.
LEMMA AlertAllowed ==
  ASSUME TypeOK, FlagInv, StandsOpen,
         NEW a \in Accounts, NEW amt \in Amounts, ProcessAlert(a, amt)
  PROVE  Policy!Alert(a, amt)
  <1>1. /\ flagState[a] /\ amt > LARGE_AMOUNT /\ Record(a, amt) /\ UNCHANGED now
        /\ alerts' = alerts \cup {[small |-> flagTx[a], large |-> Len(txs) + 1]}
    BY DEF ProcessAlert
  <1>2. FlagOf(a) /\ Between(a) BY <1>1 DEF FlagInv, StandsOpen
  <1>3. PICK i \in 1..Len(txs) : i = flagTx[a] BY <1>1, <1>2 DEF FlagOf
  <1>4. Policy!Open(a, i)
    <2>1. i \in Policy!SmallOf(a)
      BY <1>1, <1>2, <1>3 DEF FlagOf, Policy!SmallOf, Policy!Seen
    <2>2. Policy!Since(a, i) \subseteq SMALL_AMOUNT..LARGE_AMOUNT
      BY <1>2, <1>3 DEF Between, Policy!Since, Policy!Seen
    <2> QED BY <2>1, <2>2 DEF Policy!Open
  <1>5. now - txs[i].at <= OneMinute + MaxLag
    <2>1. now \in Nat /\ txs[i].at \in Nat /\ OneMinute \in Nat /\ MaxLag \in Nat
      BY TransactionTypes, DetectorAssumption DEF TypeOK
    <2>2. now <= txs[i].at + OneMinute + MaxLag BY <1>1, <1>2, <1>3 DEF FlagOf
    <2> QED BY <2>1, <2>2
  <1> QED
    BY <1>1, <1>3, <1>4, <1>5 DEF Policy!Alert, Policy!See, Policy!Seen, Record

\* No alert is missing that the policy demands.
LEMMA PassAllowed ==
  ASSUME TypeOK, WatchInv, NEW a \in Accounts, NEW amt \in Amounts,
         ProcessSmall(a, amt) \/ ProcessOther(a, amt)
  PROVE  Policy!Pass(a, amt)
  <1>1. Record(a, amt) /\ UNCHANGED <<now, alerts>>
    BY DEF ProcessSmall, ProcessOther
  <1>2. ASSUME amt > LARGE_AMOUNT, Policy!Suspicious(a) PROVE FALSE
    <2>1. PICK i \in Policy!SmallOf(a) :
            /\ Policy!Alone(a, i) /\ now - txs[i].at < OneMinute
            /\ \A v \in Policy!Since(a, i) : v <= LARGE_AMOUNT
      BY <1>2 DEF Policy!Suspicious
    <2>2. i \in 1..Len(txs) /\ txs[i].account = a /\ txs[i].amount < SMALL_AMOUNT
      BY DEF Policy!SmallOf, Policy!Seen
    <2>3. /\ Len(txs) \in Nat
          /\ \A k \in 1..Len(txs) : txs[k].at \in Nat /\ txs[k].amount \in Nat
      BY TransactionTypes
    <2>4. Fresh(i)
      <3>1. \A k \in 1..(i - 1) : k \in 1..Len(txs) /\ k < i BY <2>2, <2>3
      <3> QED BY <2>1, <2>2, <3>1 DEF Fresh, Policy!Alone, Policy!SmallOf, Policy!Seen
    <2>5. \A k \in (i + 1)..Len(txs) : txs[k].account = a => txs[k].amount <= LARGE_AMOUNT
      <3>1. \A k \in (i + 1)..Len(txs) : k \in 1..Len(txs) /\ k > i BY <2>2, <2>3
      <3> QED BY <2>1, <3>1 DEF Policy!Since, Policy!Seen
    <2>6. Kept(a, i) BY <2>2, <2>4, <2>5 DEF WatchInv, Watching
    <2>7. now < txs[i].at + OneMinute
      <3>1. now \in Nat /\ OneMinute \in Nat BY DetectorAssumption DEF TypeOK
      <3> QED BY <2>1, <2>2, <2>3, <3>1
    <2>8. flagState[a] BY <2>6, <2>7 DEF Kept
    <2>9. amt \in Nat BY DetectorAssumption
    <2>10. ~ ProcessOther(a, amt) BY <1>2, <2>8 DEF ProcessOther
    <2>11. ~ ProcessSmall(a, amt)
      BY <1>2, <2>9 DEF ProcessSmall, SMALL_AMOUNT, LARGE_AMOUNT
    <2> QED BY <2>10, <2>11
  <1> QED BY <1>1, <1>2 DEF Policy!Pass, Policy!See, Record

\* The alerts keep the policy: one at most for a large change, about the last small
\* change of the account, and one at least where no older timer can have cleared
\* the flag (processElement, onTimer and cleanUp together).
THEOREM RefinesFraudPolicy == Spec => KeepsPolicy
  <1>1. Init => WatchInv /\ StandsOpen /\ Policy!Init
    BY DEF Init, WatchInv, OnClock, StandsOpen, Policy!Init
  <1>2. TypeOK /\ FlagInv /\ WatchInv /\ StandsOpen /\ [Next]_vars
          => [Policy!Next]_(Policy!vars)
    <2> SUFFICES ASSUME TypeOK, FlagInv, WatchInv, StandsOpen, [Next]_vars
                 PROVE  Policy!Next \/ UNCHANGED Policy!vars
      OBVIOUS
    <2>1. CASE Tick BY <2>1 DEF Tick, histVars, Policy!Next, Policy!TimePasses
    <2>2. ASSUME NEW a \in Accounts, NEW amt \in Amounts, processElement(a, amt)
          PROVE  Policy!Next
      BY <2>2, AlertAllowed, PassAllowed DEF processElement, Policy!Next
    <2>3. CASE Fire \/ UNCHANGED vars
      BY <2>3 DEF Fire, onTimer, vars, histVars, Policy!vars
    <2> QED BY <2>1, <2>2, <2>3 DEF Next
  <1> QED
    BY <1>1, <1>2, WatchStep, OpenStep, TypeCorrect, FlagCorrect, PTL
    DEF Spec, KeepsPolicy, Policy!Spec
=============================================================================
