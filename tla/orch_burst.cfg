SPECIFICATION SafeSpec
CONSTANTS
  Runs <- BurstRuns
  Codes <- BurstCodes
  Owner <- BurstOwner
  OrderNo <- BurstOrder
  DependsOn <- BurstDepends
  Skippable = {}
  Regenerable = {}
  Workers = {0}
  WorkerZero = 0
  NoJob = NoJob
  MaxConcurrentRuns = 2
  MaxActiveRunsPerUser = 1
  MaxSectionAttempts = 2
  WantsReconcile = TRUE
  SlowWorkers = FALSE
  EagerRetry = FALSE
  CamFaults = {}
  CallFaults = FALSE
  MaxRetries = 0
  MaxCrashes = 0
INVARIANTS
  RunningCapRespected
  UserCapRespected
PROPERTIES
  FifoAdmission
