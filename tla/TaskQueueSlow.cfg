\* Consumers may sleep past their leases; the broker may restart.
SPECIFICATION Spec
CONSTANTS
  Consumers = {c1, c2}
  Evictable = {}
  NoWorker = NoWorker
  Durations = {1}
  Grace = 1
  Timeout = 0
  Slack = 2
  MaxTasks = 2
  MaxAttempts = 2
  MaxLosses = 1
  MaxCrashes = 0
  MaxRestarts = 1
INVARIANTS
  AuditTrail
  CountsMatchEvents
  DoneWasExecuted
PROPERTY
  ImplementsLeaseQueue
SYMMETRY Symmetry
