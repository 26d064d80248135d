CONSTANTS
  c1 = c1  c2 = c2  c3 = c3  c4 = c4  p1 = p1  p2 = p2
  NoFile = NoFile
  Calls <- MCCalls
  Procs = {p1, p2}
  ProcOf <- MCProcOf
  MaxFaults = 1
SPECIFICATION Spec
INVARIANTS NeverTakesNewLock
