SPECIFICATION Spec
CONSTANTS
  r1 = r1
  r2 = r2
  r3 = r3
  r4 = r4
  bad = bad
  h1 = h1
  h2 = h2
  h3 = h3
  t1 = t1
  t2 = t2
  NoJob = NoJob
  Requests = {r1, r2, r3, bad}
  WellFormed = {r1, r2, r3}
  Hashes = {h1, h2}
  Targets = {t1}
  PoolSize = 2
  Faults = {"db", "redis", "crash", "operator", "expiry"}
  HashOf <- MCHashOf
  TargetOf <- MCTargetOf
INVARIANTS
  OneActivePerTarget
  DeduplicatedFor24h
  JobHasKey
  AcceptedIsDurable
  RefusedLeavesNoTrace
PROPERTIES
  ImplementsAdmission
CHECK_DEADLOCK FALSE
