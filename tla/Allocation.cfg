\* Lists with duplicates, unknown and unhealthy devices.
SPECIFICATION Spec
CONSTANTS
  Devices = {d1, d2, d3}
  Strangers = {x}
  MaxAvailable = 3
  MaxMust = 2
  MaxSize = 3
  MaxContainers = 2
  MaxIds = 2
  MaxUpdates = 2
INVARIANTS
  PreferredIsReference
  AllocatedIsExclusive
  ProposalIsHonoured
CHECK_DEADLOCK FALSE
