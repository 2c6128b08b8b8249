CONSTANTS
  nova = nova
  glance = glance
  images = images
  vms = vms
  Proxies = {p1, p2}
  Services = {nova, glance}
  Pools = {images}
  Perms = {"rwx", "rx"}
  Namespaces <- NoNamespace
  GroupNames = {"images"}
  Ops <- MemberOps
  None = None
  MonLeaders = {p2}
  MaxFetches = 2
  MaxFetchFaults = 1
  MaxOps = 3
  MaxReadFaults = 0
  MaxAborts = 0
  MaxCapsFaults = 0
SPECIFICATION NamedKeysSpec
INVARIANTS NamedKeysTypeOK NoUnaskedAccess
PROPERTY NarrowedStaysNarrowed
CHECK_DEADLOCK FALSE
