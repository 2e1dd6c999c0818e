\* The grace covers the delays: Slack + 2 * Timeout <= Grace.
SPECIFICATION Spec
CONSTANTS
  Consumers = {c1, c2}
  Evictable = {c1}
  NoWorker = NoWorker
  Durations = {1}
  Grace = 2
  Timeout = 1
  Slack = 0
  MaxTasks = 2
  MaxAttempts = 3
  MaxLosses = 1
  MaxCrashes = 1
  MaxRestarts = 0
INVARIANTS
  TypeOK
  AuditTrail
  TimelyWorkerKeepsLease
  NoConcurrentExecution
  OnceWithoutFaults
  DoneWasExecuted
  DrainLeavesNothing
