\* Three calls from two processes, one slot: two for one task, and a call of withSlot.
CONSTANTS
  c1 = c1  c2 = c2  c3 = c3  p1 = p1  p2 = p2  t1 = t1  t2 = t2
  None = None
  Error = Error
  Callers <- MCCallers
  SlotCallers = {c3}
  Interactive = {}
  Procs = {p1, p2}
  ProcOf <- TwoProcesses
  Tasks = {t1}
  TaskOf <- OneTask
  Limit = 1
  Lease = 1
  ExpiryLeases = 1
  MaxFaults = 1
SPECIFICATION Spec
INVARIANTS OneLiveBuilder
PROPERTIES IsSingleFlight
