SPECIFICATION LiveSpec
CONSTANTS
  Partitions = {p1}
  Keys = {k1}
  NoKey = NoKey
  Assignments <- MCAssignments
  AssignInFill = FALSE
  MaxLen = 2
  MaxRebalances = 1
  MaxFaults = 1
  MaxRuns = 2
INVARIANTS TypeOK DeliveryInv
PROPERTIES ReadingEnds WaitModeDelivers CommittedMonotone ReadsAtLeastOnce
CHECK_DEADLOCK FALSE
