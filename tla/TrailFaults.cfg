SPECIFICATION ASpec
CONSTANTS
  MaxRuns = 2
  TrailFaults = {"stage", "crash", "update", "insert", "operator"}
INVARIANTS
  ATypeOK
  MessageMatchesStatus
  EventsAreWrites
CHECK_DEADLOCK FALSE
