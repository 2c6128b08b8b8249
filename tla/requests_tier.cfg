CONSTANTS
  Proxies = {p1}
  Pools <- AllPools
  Profiles <- AllProfiles
  FileSystems = {"fs"}
  Clients <- AllClients
  Values = {1, 2, 3, 10}
  Requests = {"tier", "untier"}
  Actions = {}
  Ops <- ReadonlyTier
  DefaultProfile = "default-canonical"
  None = None
  MaxRuns = 3
  MaxReadFaults = 0
  MaxFaults = 0
  MaxCrashes = 0
SPECIFICATION Spec
PROPERTY RemovedMeansGone
CHECK_DEADLOCK FALSE
