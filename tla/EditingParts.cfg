CONSTANTS
  Client = {c1, c2}
  Region = {{m1}, {m2}, {m1, m2}}
  MaxTexts = 2
  MaxUndos = 2
  MaxSaves = 1
  MaxFaults = 2
  NoWords = NoWords
  Page = {page1, page2}  First = page1  Nobody = Nobody
  TTL = 1  MaxIds = 6  MaxEvents = 1
SPECIFICATION EditingSpec
PROPERTIES CorrectionsSettle LeaseHolds TwoEditorsEnd
CHECK_DEADLOCK FALSE
