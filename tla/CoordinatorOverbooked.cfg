\* Three calls of withSlot from two processes, one slot, no faults.
CONSTANTS
  c1 = c1  c2 = c2  c3 = c3  p1 = p1  p2 = p2  t1 = t1  t2 = t2
  None = None
  Error = Error
  Callers <- MCCallers
  SlotCallers = {c1, c2, c3}
  Interactive = {}
  Procs = {p1, p2}
  ProcOf <- TwoProcesses
  Tasks = {}
  TaskOf <- NoTasks
  Limit = 1
  Lease = 1
  ExpiryLeases = 1
  MaxFaults = 0
SPECIFICATION Spec
INVARIANTS LimitRespected
