CONSTANTS
  Proxies = {p1}
  Pools <- AllPools
  Profiles <- AllProfiles
  FileSystems = {"fs"}
  Clients <- AllClients
  Values = {1, 2, 3, 10}
  Requests <- AllRequests
  Actions <- AllActions
  Ops <- EveryRequest
  DefaultProfile = "default-canonical"
  None = None
  MaxRuns = 3
  MaxReadFaults = 1
  MaxFaults = 0
  MaxCrashes = 0
SPECIFICATION Spec
INVARIANTS TypeOK AnswerMeansDone NothingDirtyIsRemoved
PROPERTY CreationSettingsStick
CHECK_DEADLOCK FALSE
