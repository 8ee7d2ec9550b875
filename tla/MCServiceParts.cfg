SPECIFICATION ServiceSpec
CONSTANTS
  Coordinators = {k1, k2}
  Observed = k1
  Runs = {r1}
  Plans = {p1, p2}
  NoReceipt = NoReceipt
  MaxDamage = 1
  Tasks = {1, 2, 3, 4}
  Deps <- Fork
  Concurrency = 2
  Retries = 1
  Clients = {c1, c2}
  a1 = a1
  Apps = {a1}
  AppOf <- OneApp
  Nobody = Nobody
  Room = 1
  MaxLate = 2
  MaxKills = 1
  MaxStops = 1
INVARIANTS ServiceTypeOK ReadOnce SameAnswer ReceiptHasEvidence
  CalledOnEvidence OkMeansAllRead OwnOrAbandoned SessionKept
PROPERTIES NoCallAfterDenial RunEnds EveryClientEnds
CHECK_DEADLOCK FALSE
