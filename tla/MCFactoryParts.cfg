SPECIFICATION PartsSpec
CONSTANTS
  Jobs = {j1, j2}
  States = {leased, done}
  NoRow = NoRow
  Broken = Broken
  Procs = {x1, x2}
  MaxKills = 1
  Requests = {1, 2}
  MaxSeconds = 1
  MaxRescues = 1
  Stages = {"quality_gate", "generator"}
  Marks = {"dependency"}
  PreflightRuns = 1
  BatchSize = 2
  MaxBatches = 2
  DependencyStop = 1
  DependencyTenths = 5
  MaxRuns = 20
  StabilityTenths = 9
  Patience = 1
  MaxEarlier = 1
  Goals = {g}
  Adapters = {x1, x2}
  SignalMin <- MCMin
  SignalMax = 2
  SomeEvents = 1
  ManyEvents = 2
  SelectAt = 2
  MaxEvents = 3
  MaxSnapshots = 1
  Workers = {1, 2}
  InitialBudget = 3
  Rounds = {x1, x2}
  WorkerLimit = 2
  Scores = {3}
  MinArtifacts = 2
  MinPattern = 1
  MaxLog = 3
  MaxLinks = 1
  MaxScored = 1
  MaxFaults = 1
  Subjects = {s1, s2}
  Allowed = {s1}
  Signals = {1, 2, 3}
  Prices = {2, 3}
  Slips <- MCSlips
  MaxSlip = 1
  SlipBase = 4
  FeeBase = 4
  Fee = 1
  Scale = 2
  PositionBase = 2
  LossBase = 4
  InitialCash = 400
  Sources = {x1, x2}
  Confidences = {1, 2}
  Tenths = {0, 2, 5}
  Voiced = {"UP", "FLAT", "COUNTER"}
  MaxReferred = 3
  MaxItems = 3
CHECK_DEADLOCK FALSE
INVARIANTS PartsTypeOK CalmFileIsComplete ApiHolds EvolutionHolds FeedbackHolds RoundsHold HintIsEarned PaperHolds HerdingHolds
SYMMETRY Alike
