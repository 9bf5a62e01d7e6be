SPECIFICATION RSpec
CONSTANTS
  Jobs = {1, 2}
  Namespaces = {1}
  NamespaceOf <- MCShared
  FirstService <- MCFirst
  Sound = {1, 2}
  MaxAttempts = 1
  RolloutFaults = {}
INVARIANTS
  CompletedHasPods
CHECK_DEADLOCK FALSE
