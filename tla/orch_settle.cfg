SPECIFICATION SafeSpec
CONSTANTS
  Runs <- MemoRuns
  Codes <- MemoCodes
  Owner <- MemoOwner
  OrderNo <- MemoOrder
  DependsOn <- MemoDepends
  Skippable = {"terms"}
  Regenerable = {"risk"}
  Workers = {0, 1}
  WorkerZero = 0
  NoJob = NoJob
  MaxConcurrentRuns = 1
  MaxActiveRunsPerUser = 1
  MaxSectionAttempts = 2
  WantsReconcile = TRUE
  SlowWorkers = FALSE
  EagerRetry = FALSE
  CamFaults = {}
  CallFaults = FALSE
  MaxRetries = 2
  MaxCrashes = 0
INVARIANTS
  TypeOK
  SettledRunAgreesWithSections
  HandedOverOnce
  TerminalRunHasCam
  NoticeIsTrue
  CamHoldsEverySection
PROPERTIES
  
  
  ReconciledBeforeHandoff
  
