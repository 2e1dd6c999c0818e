\* Every experiment, started twice, with one failing call, kill or event.
SPECIFICATION Spec
CONSTANTS
  Cases = {"steps", "policies", "real", "multi", "failures", "scheduling", "pods", "requests", "bandwidth"}
  MaxRuns = 2
  MaxFaults = 1
  MaxLeases = 1
  MiB = 4
INVARIANTS
  HpaTypeOK
  AuditIsOwn
  Restored
  RerunPasses
  ConversionRoundTrip
  WebhookOutlivesObjects
  WatchSeesEveryChange
  LeftoverIsExplained
  ManifestsRestored
  EffectBeforeAck
  OverlapIsExercised
  ImageForcesCollection
  ExpansionIsOwn
  PassMeansIntended
PROPERTIES
  CleanRunPasses
  SteadyIsCurrent
CHECK_DEADLOCK FALSE
