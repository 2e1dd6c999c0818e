\* The handler of a stream nobody reads takes the one notification.
SPECIFICATION FairSpec
CONSTANTS
  Devices = {d1}
  Strangers = {x}
  MaxUpdates = 1
  MaxStreams = 2
  MaxKubelets = 0
  MaxTimeouts = 1
  Failures = 0
PROPERTY
  HealthReachesKubelet
CHECK_DEADLOCK FALSE
