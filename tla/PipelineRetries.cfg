SPECIFICATION PSpec
CONSTANTS
  CpuCores <- MCCpuCores
  MemoryMB <- MCMemoryMB
  MaxAttempts = 3
  MaxCommits = 3
  Vulnerable = {2}
INVARIANTS
  PTypeOK
  VerificationNeverBlocks
  NoPenaltyForMissingTools
  AppliesWhatItCloned
  RetriesAreFresh
  NothingOlderRuns
CHECK_DEADLOCK FALSE
