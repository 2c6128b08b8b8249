CONSTANTS
  Devices = {d1, d2, d3}
  Utilities = {w1, w2}
  Capacity = 2
  Setups <- EverySetup
  None = None
  MaxFaults = 3
SPECIFICATION Spec
INVARIANTS TypeOK RecordedIsOsd PreparedOnce UtilitiesAreBalanced
PROPERTIES EndedMeansPrepared OsdsAreKept
