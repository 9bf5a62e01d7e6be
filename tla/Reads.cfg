SPECIFICATION ReadsSpec
CONSTANTS
  j1 = j1
  j2 = j2
  j3 = j3
  Jobs = {j1, j2, j3}
  CreatedAt <- MCCreatedAt
  TargetNamespace <- MCTargetNamespace
  Namespaces = {"sandbox", "production"}
  StatusFilters = {"QUEUED", "RUNNING"}
  Limits = {1, 2}
  MaxWrites = 3
  Rows <- MCRows
  MaxRows = 3
INVARIANTS
  LTypeOK
  AnsweredAsDocumented
  ScanMissesOnlyDepartures
  RepeatsOnlyArrivals
  TotalAgreesWithRows
  PatternsAreExact
  SuggestionsWithinUse
CHECK_DEADLOCK FALSE
