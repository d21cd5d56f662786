SPECIFICATION Spec
CONSTANTS
  Entries = {"insert"}
  MaxPackets = 1
  MaxFaults = 0
INVARIANTS WaitsForMore
CHECK_DEADLOCK FALSE
