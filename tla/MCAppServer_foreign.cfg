SPECIFICATION AppSpec
CONSTANTS
  Clients = {c1, c2}
  a1 = a1
  Apps = {a1}
  AppOf <- OneApp
  Nobody = Nobody
  Room = 1
  MaxLate = 1
  MaxKills = 0
  MaxStops = 0
INVARIANTS SuccessIsOwn
CHECK_DEADLOCK FALSE
