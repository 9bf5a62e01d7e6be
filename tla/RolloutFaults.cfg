SPECIFICATION RFairSpec
CONSTANTS
  Jobs = {1, 2}
  Namespaces = {1}
  NamespaceOf <- MCShared
  FirstService <- MCFirst
  Sound = {1}
  MaxAttempts = 2
  RolloutFaults = {"api", "discovery", "pods", "crash"}
INVARIANTS
  RTypeOK
  AppliedInFull
PROPERTIES
  SoundVerdict
  EveryRolloutEnds
CHECK_DEADLOCK FALSE
