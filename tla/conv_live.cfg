CONSTANTS
  Proxies = {p1, p2}
  Clients = {c1}
  Requests = {r1, r2}
  c1 = c1
  None = None
  Kind <- TwoClients
  OpsClass <- AllDifferent
  Outcomes = {"ok"}
  ReadyConfs <- SecondConf
  MaxConfs = 2
  MaxSends = 1
  MaxElections = 1
  MaxFaults = 1
SPECIFICATION FairSpec
INVARIANTS SettledUnitIsServed
PROPERTY AnsweredUnderOneLeader
CHECK_DEADLOCK FALSE
