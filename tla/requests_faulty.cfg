CONSTANTS
  Proxies = {p1, p2}
  Pools <- AllPools
  Profiles <- AllProfiles
  FileSystems = {"fs"}
  Clients <- AllClients
  Values = {1, 2, 3, 10}
  Requests = {"pools", "erasure", "files", "tier"}
  Actions = {}
  Ops <- EveryRequest
  DefaultProfile = "default-canonical"
  None = None
  MaxRuns = 2
  MaxReadFaults = 1
  MaxFaults = 1
  MaxCrashes = 1
SPECIFICATION Spec
INVARIANT AnswerMeansUpdated
CHECK_DEADLOCK FALSE
