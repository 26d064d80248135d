\* Of the queue: a batch and an interactive call of run, each for a task of its own, and an
\* interactive withSlot, for one slot; nothing fails.
\* Of the videos: two renders among three revisions of two montages; one older revision is kept.
CONSTANTS
  c1 = c1  c2 = c2  c3 = c3  p1 = p1  p2 = p2  t1 = t1  t2 = t2
  None = None
  Error = Error
  Callers <- MCCallers
  SlotCallers = {c3}
  Interactive = {c2, c3}
  Procs = {p1}
  ProcOf <- OneProcess
  Tasks = {t1, t2}
  TaskOf <- OneEach
  Limit = 1
  Lease = 1
  ExpiryLeases = 1
  MaxFaults = 0
  Render = {one, two}  Montage = {m1, m2}  MaxRevision = 3  Kept = 1  Failures = 1
SPECIFICATION ServerSpec
SYMMETRY Alike
CHECK_DEADLOCK FALSE
INVARIANTS LimitUnlessRobbed RunsReleaseForGood CacheIsWhatItsKeySays
PROPERTIES KeepsItsPlace TakesOnlyOvertaken
