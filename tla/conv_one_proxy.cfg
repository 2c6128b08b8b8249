CONSTANTS
  Proxies = {p1}
  Clients = {c1, c2}
  Requests = {r1, r2}
  c1 = c1
  None = None
  Kind <- TwoClients
  OpsClass <- AllDifferent
  Outcomes = {"ok", "failed", "aborted"}
  ReadyConfs <- SecondConf
  MaxConfs = 2
  MaxSends = 2
  MaxElections = 0
  MaxFaults = 1
SPECIFICATION Spec
INVARIANTS TypeOK CompletionIsEarned SettledUnitIsServed
PROPERTY SettingsNeverGoBack
SYMMETRY OneProxySymmetry
CHECK_DEADLOCK FALSE
