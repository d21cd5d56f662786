SPECIFICATION Spec
CONSTANTS
  Partitions = {p1}
  Keys = {k1}
  NoKey = NoKey
  Assignments <- MCAssignments
  AssignInFill = FALSE
  MaxLen = 1
  MaxRebalances = 0
  MaxFaults = 0
  MaxRuns = 1
SYMMETRY MCSymmetry
INVARIANTS ExitHasAllData
CHECK_DEADLOCK FALSE
