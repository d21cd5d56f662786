SPECIFICATION FairSpec
CONSTANTS
  Accounts = {a1, a2}
  Amounts = {7, 10, 5000, 5010}
  OneMinute = 2
  MaxLag = 1
  MaxTime = 7
  MaxTx = 4
INVARIANTS TypeOK ArmedFlag AlertJustified FreshFraudAlerted
PROPERTIES FlagExpires KeepsPolicy
CHECK_DEADLOCK FALSE
