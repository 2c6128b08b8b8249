CONSTANTS
  Proxies = {p1}
  Clients = {c1, c2}
  Requests = {r1, r2}
  c1 = c1
  None = None
  Kind <- RadosgwAndMds
  OpsClass <- AllDifferent
  Outcomes = {"ok", "failed"}
  ReadyConfs <- OddConfs
  MaxConfs = 3
  MaxSends = 1
  MaxElections = 0
  MaxFaults = 1
SPECIFICATION Spec
INVARIANT SettledUnitIsServed
PROPERTY SettingsNeverGoBack
CHECK_DEADLOCK FALSE
