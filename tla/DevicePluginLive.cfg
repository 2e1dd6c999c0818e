\* Restarts of the kubelet fall anywhere into the start-up of the plugin.
SPECIFICATION FairSpec
CONSTANTS
  Devices = {d1}
  Strangers = {x}
  MaxUpdates = 0
  MaxStreams = 5
  MaxKubelets = 2
  MaxTimeouts = 1
  Failures = 1
PROPERTIES
  EventuallyServing
  TermEnds
CHECK_DEADLOCK FALSE
