\* One lost call while a consumer drains.
SPECIFICATION Spec
CONSTANTS
  Consumers = {c1, c2}
  Evictable = {c1}
  NoWorker = NoWorker
  Durations = {1}
  Grace = 2
  Timeout = 1
  Slack = 0
  MaxTasks = 1
  MaxAttempts = 3
  MaxLosses = 1
  MaxCrashes = 0
  MaxRestarts = 0
INVARIANT
  ClaimedTaskIsAcked
