SPECIFICATION Spec
CONSTANTS
  Runs <- MemoRuns
  Codes <- PairCodes
  Owner <- MemoOwner
  OrderNo <- PairOrder
  DependsOn <- PairDepends
  Skippable = {}
  Regenerable = {"risk"}
  Workers = {0, 1}
  WorkerZero = 0
  NoJob = NoJob
  MaxConcurrentRuns = 1
  MaxActiveRunsPerUser = 1
  MaxSectionAttempts = 2
  WantsReconcile = TRUE
  SlowWorkers = FALSE
  EagerRetry = FALSE
  CamFaults = {"refused", "reply_lost"}
  CallFaults = TRUE
  MaxRetries = 0
  MaxCrashes = 2

  
PROPERTIES
  EverySectionSettles
CHECK_DEADLOCK FALSE
