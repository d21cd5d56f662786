SPECIFICATION FairSpec
CONSTANTS
  Commands = {"set_conf", "get_metrics", "get_perf"}
  MaxLoops = 3
  MaxFaults = 2
INVARIANTS TypeOK AnswerIsTrue LoginFirst
PROPERTIES Terminates CallsAtMostOnce
CHECK_DEADLOCK FALSE
