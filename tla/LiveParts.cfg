CONSTANTS
  c1 = c1  c2 = c2  c3 = c3  c4 = c4  p1 = p1  p2 = p2
  NoFile = NoFile
  Calls <- MCCalls
  Procs = {p1, p2}
  ProcOf <- MCProcOf
  MaxFaults = 1
  Callers = {c1, c2}  SlotCallers = {c2}  Interactive = {c2}  CallerProc <- MCCallerProc
  t1 = t1  Tasks = {t1}  TaskOf <- MCTaskOf  SlotLimit = 1  Lease = 1  ExpiryLeases = 1  Crashes = 2  None = None  Error = Error
  a = a  b = b  d = d  Runs = {a, b, d}  Places = 1  KeyOf <- MCKeyOf  NoKey = NoKey  NoWork = NoWork
SPECIFICATION LiveSpec
INVARIANTS PlacesAndWorksAddUp
PROPERTIES LockIsEntered EveryoneServed
CHECK_DEADLOCK FALSE
