CONSTANTS
  Pockets = {1}
  Archives = {2}
  Unsupported = {8}
  Unknown = {}
  Clusters = {unset, ceph}
  Unset = unset
  None = None
  MaxRetries = 1
  MaxChanges = 2
  MaxEvents = 2
  MaxFaults = 1
SPECIFICATION FairSpec
INVARIANTS TypeOK SavedIsInstalled FilesMatchConfig StatusIsCurrent
PROPERTY ChangesTakeEffect
CHECK_DEADLOCK FALSE
