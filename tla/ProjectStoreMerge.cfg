CONSTANTS
  c1 = c1  c2 = c2
  Client <- MCClient
  Analysis = Analysis  Preparation = Preparation  Nobody = Nobody
  Missing = Missing  Torn = Torn
  UndoLimit = 2
  MaxRequests = 2
  MaxAnalyses = 2
  MaxClaims = 0
  MaxCrashes = 0
SPECIFICATION Spec
PROPERTIES SameRevisionKeepsAnalysis
CHECK_DEADLOCK FALSE
