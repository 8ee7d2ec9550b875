SPECIFICATION CallSpec
CONSTANTS
  Calls = {1, 2}
  Daemons = {d1, d2}
  Nobody = Nobody
  NoCall = NoCall
  MaxFaults = 1
INVARIANTS TypeOK DaemonRunsOnce OkIsEarned OneAgent
PROPERTIES EveryCallEnds
CHECK_DEADLOCK FALSE
