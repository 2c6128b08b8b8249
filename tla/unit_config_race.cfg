CONSTANTS
  Pockets = {1}
  Archives = {2}
  Unsupported = {8}
  Unknown = {9}
  Clusters = {unset, ceph}
  Unset = unset
  None = None
  MaxRetries = 1
  MaxChanges = 1
  MaxEvents = 2
  MaxFaults = 0
SPECIFICATION Spec
INVARIANT ChangeTriggersUpgrade
CHECK_DEADLOCK FALSE
