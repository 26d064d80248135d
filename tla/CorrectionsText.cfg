CONSTANTS
  Client = {c1, c2}
  Region = {{m1}, {m2}, {m1, m2}}
  MaxTexts = 2
  MaxUndos = 1
  MaxSaves = 1
  MaxFaults = 1
  NoWords = NoWords
SPECIFICATION FairSpec
INVARIANTS AlignedWordsAreOfItsText
CHECK_DEADLOCK FALSE
