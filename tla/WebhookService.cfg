\* Three requests for two Pods while the node list shrinks and grows.
SPECIFICATION Spec
CONSTANTS
  Nodes = {1, 2, 3}
  Pods = {p1, p2}
  NoPod = NoPod
  MaxRequests = 3
  MaxChanges = 1
INVARIANTS
  OnlyNilSelectorAborts
  RoundRobin
  SerialRequestsAgree
SYMMETRY Symmetry
CHECK_DEADLOCK FALSE
