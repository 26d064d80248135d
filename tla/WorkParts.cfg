CONSTANTS
  Call = {a, b, c}  Source = {s, t}  None = None  AtOnce = 2
  Length = 8  Words = 4  WordCells <- MCWordCells  CutCells <- MCCutCells
  Fillers <- MCFillers  FillerRanges <- MCFillerRanges  RhythmCells <- MCRhythmCells  MaxGap = 2  MaxChanges = 4
  Deliveries = {u, v}  First = First  Second = Second  MaxFaults = 1
SPECIFICATION WorkSpec
INVARIANTS NothingRefersToRemoved RestoredIsHeard DeliveredWasRecorded OpensAgain
PROPERTIES AppliedToWhatItWasMadeFor OnlyTheNamedGoes KeepsTheCopy
SYMMETRY Alike
CHECK_DEADLOCK FALSE
