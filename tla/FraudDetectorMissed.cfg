SPECIFICATION Spec
CONSTANTS
  Accounts = {a1}
  Amounts = {4, 5010}
  OneMinute = 3
  MaxLag = 0
  MaxTime = 8
  MaxTx = 3
INVARIANTS FraudAlerted
CHECK_DEADLOCK FALSE
