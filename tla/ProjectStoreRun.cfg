CONSTANTS
  c1 = c1  c2 = c2
  Client <- MCClient
  Analysis = Analysis  Preparation = Preparation  Nobody = Nobody
  Missing = Missing  Torn = Torn
  UndoLimit = 2
  MaxRequests = 4
  MaxAnalyses = 1
  MaxClaims = 1
  MaxCrashes = 1
SPECIFICATION Spec
SYMMETRY Browsers
INVARIANTS ApprovedIsWatched
PROPERTIES SavesBuildOnNamedRevision ImplementsUndoStack
CHECK_DEADLOCK FALSE
