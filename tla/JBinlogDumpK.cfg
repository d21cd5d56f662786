SPECIFICATION FairSpec
CONSTANTS
  Partitions = {p1, p2}
  MaxLen = 2
  MaxRebalances = 1
  MaxFaults = 1
  MaxRuns = 2
INVARIANTS TypeOK CommittedPrinted
PROPERTIES EndsCaughtUp DumpEnds DumpsAtLeastOnce
CHECK_DEADLOCK FALSE
