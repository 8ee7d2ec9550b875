SPECIFICATION SwarmPartsSpec
CONSTANTS
  p1 = p1
  p2 = p2
  Predictions = {p1, p2}
  Evaluators = {e1, e2}
  None = None
  Due <- MCDue
  MaxTime = 1
  MaxStarts = 2
  Works = {1, 2, 3, 4}
  Parents <- MCParents
  Products = {"signal", "research"}
  OnSale <- MCOnSale
  Approvals = {3}
  Commercialized = {4}
  ByWorker = {1, 2}
  Calibration <- MCCalibration
  Payments = {1}
  Requests = {r1, r2}
  MaxCrashes = 1
CHECK_DEADLOCK FALSE
INVARIANTS SoldIsEvaluated
