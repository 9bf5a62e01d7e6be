SPECIFICATION DFairSpec
CONSTANTS
  r1 = r1
  r2 = r2
  r3 = r3
  h1 = h1
  h2 = h2
  h3 = h3
  t1 = t1
  t2 = t2
  NoJob = NoJob
  Requests = {r1}
  WellFormed = {r1}
  Hashes = {h1}
  Targets = {t1}
  PoolSize = 2
  Faults = {}
  Concurrency = 1
  MaxRetry = 1
  WorkerFaults = {"timeout"}
  HashOf <- MCHashOf
  TargetOf <- MCTargetOf
PROPERTIES
  ErrorMeansFailed
CHECK_DEADLOCK FALSE
