\* One request is enough.
SPECIFICATION Spec
CONSTANTS
  Nodes = {1, 2}
  Pods = {p1}
  NoPod = NoPod
  MaxRequests = 1
  MaxChanges = 0
INVARIANT
  AssignedNodeIsPatched
CHECK_DEADLOCK FALSE
