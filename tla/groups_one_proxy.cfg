CONSTANTS
  nova = nova
  glance = glance
  images = images
  vms = vms
  Proxies = {p1}
  Services = {nova, glance}
  Pools = {images, vms}
  Perms = {"rwx", "rx"}
  Namespaces <- NoNamespace
  GroupNames = {"images", "vms"}
  Ops <- CrowdedOps
  None = None
  MaxOps = 6
  MaxReadFaults = 0
  MaxAborts = 1
  MaxCapsFaults = 0
SPECIFICATION Spec
INVARIANTS TypeOK AckedIsStored KeysMatchGroups
PROPERTY KeysOnlyGain
CHECK_DEADLOCK FALSE
