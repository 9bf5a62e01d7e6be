SPECIFICATION DFairSpec
CONSTANTS
  r1 = r1
  r2 = r2
  r3 = r3
  h1 = h1
  h2 = h2
  h3 = h3
  t1 = t1
  t2 = t2
  NoJob = NoJob
  Requests = {r1, r2}
  WellFormed = {r1, r2}
  Hashes = {h1, h2}
  Targets = {t1}
  PoolSize = 2
  Faults = {"operator"}
  Concurrency = 2
  MaxRetry = 1
  WorkerFaults = {"stage", "db", "timeout", "crash"}
  HashOf <- MCHashOf
  TargetOf <- MCTargetOf
PROPERTIES
  SuccessIsRecorded
  StageDiscipline
  EveryTaskSettles
  ManualCancelHolds
  ImplementsIntake
CHECK_DEADLOCK FALSE
