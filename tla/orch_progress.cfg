SPECIFICATION Spec
CONSTANTS
  Runs <- MemoRuns
  Codes <- PairCodes
  Owner <- MemoOwner
  OrderNo <- PairOrder
  DependsOn <- PairDepends
  Skippable = {}
  Regenerable = {}
  Workers = {0, 1}
  WorkerZero = 0
  NoJob = NoJob
  MaxConcurrentRuns = 1
  MaxActiveRunsPerUser = 1
  MaxSectionAttempts = 2
  WantsReconcile = TRUE
  SlowWorkers = FALSE
  EagerRetry = FALSE
  CamFaults = {}
  CallFaults = FALSE
  MaxRetries = 1
  MaxCrashes = 0
PROPERTIES
  EveryRunSettles
  ImplementsLifecycle
