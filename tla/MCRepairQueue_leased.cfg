SPECIFICATION FairSpec
CONSTANTS
  Calls = {1}
  Daemons = {d1}
  Nobody = Nobody
  NoCall = NoCall
  MaxFaults = 1
PROPERTIES LeasedIsFiled
CHECK_DEADLOCK FALSE
