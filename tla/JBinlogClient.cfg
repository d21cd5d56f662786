SPECIFICATION FairSpec
CONSTANTS
  Entries = {"insert", "update", "ddl", "begin"}
  MaxPackets = 3
  MaxFaults = 1
INVARIANTS TypeOK PrintedInOrder SpeaksProtocol ReportHonest HeartbeatEndIsComplete
PROPERTIES HeartbeatEnds
CHECK_DEADLOCK FALSE
