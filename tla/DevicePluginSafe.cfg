\* Health changes race two streams, a kubelet restart and a lost answer.
SPECIFICATION Spec
CONSTANTS
  Devices = {d1, d2}
  Strangers = {x}
  MaxUpdates = 2
  MaxStreams = 3
  MaxKubelets = 1
  MaxTimeouts = 1
  Failures = 1
INVARIANTS
  TypeOK
  LostSocketIsNoticed
  WaitingHandlerIsUpToDate
CHECK_DEADLOCK FALSE
