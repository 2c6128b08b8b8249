CONSTANTS
  N = 3
  Daemons = {d1}
  Jobs = {"mon", "osd", "osdChown"}
  Skew <- Skewed
  KickInterval = 1
  MaxKickInterval = 4
  StartTimeout = 13
  WaitTime = 6
  CompatTime = 6
  AllTimeout = 6
  StepTime = 1
  PollTime = 1
  Spread = 0
  MaxIdle = 0
  MaxAttempts = 1
  FaultKinds = {"failure", "reboot", "badStart", "miss"}
  FaultPlaces = {"roll", "waitAll", "settle"}
  MaxFaults = 1
SPECIFICATION FairSpec
INVARIANTS TypeOK DoneMeansUpgraded SettledMeansUpgraded
PROPERTIES TurnsAreTaken EveryRollEnds
