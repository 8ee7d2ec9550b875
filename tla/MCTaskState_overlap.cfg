SPECIFICATION Spec
CONSTANTS
  Jobs = {j1, j2}
  States = {leased}
  NoRow = NoRow
  Broken = Broken
  Procs = {p1, p2}
  MaxKills = 0
INVARIANTS UpdatesPersist
