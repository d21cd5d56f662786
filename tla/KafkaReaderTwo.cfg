SPECIFICATION Spec
CONSTANTS
  Partitions = {p1, p2}
  Keys = {k1, k2}
  NoKey = NoKey
  Assignments <- MCAssignments
  AssignInFill = TRUE
  MaxLen = 2
  MaxRebalances = 0
  MaxFaults = 0
  MaxRuns = 1
SYMMETRY MCSymmetry
INVARIANTS CommittedCovered CaughtUpMeansPrinted
CHECK_DEADLOCK FALSE
