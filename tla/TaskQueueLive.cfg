\* Liveness: one consumer always stays; finitely many faults.
SPECIFICATION FairSpec
CONSTANTS
  Consumers = {c1, c2}
  Evictable = {c1}
  NoWorker = NoWorker
  Durations = {1}
  Grace = 2
  Timeout = 1
  Slack = 0
  MaxTasks = 2
  MaxAttempts = 3
  MaxLosses = 1
  MaxCrashes = 0
  MaxRestarts = 0
PROPERTIES
  EveryTaskDone
  DrainEnds
