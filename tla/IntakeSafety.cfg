SPECIFICATION FairSpec
CONSTANTS
  r1 = r1
  r2 = r2
  r3 = r3
  r4 = r4
  bad = bad
  h1 = h1
  h2 = h2
  h3 = h3
  t1 = t1
  t2 = t2
  NoJob = NoJob
  Requests = {r1, r2, r3, r4}
  WellFormed = {r1, r2, r3, r4}
  Hashes = {h1, h2, h3}
  Targets = {t1, t2}
  PoolSize = 2
  Faults = {"expiry"}
  HashOf <- MCHashOf
  TargetOf <- MCTargetOf
INVARIANTS
  TypeOK
  NoOrphan
PROPERTIES
  KeysAreWriteOnce
  EveryRequestAnswered
CHECK_DEADLOCK FALSE
