SPECIFICATION Spec
CONSTANTS
  t1 = t1
  t2 = t2
  t3 = t3
  mtx = mtx
  sem = sem
  Tasks = {t1, t2, t3}
  Idle = Idle
  NULL = NULL
  xListEnd = xListEnd
  portMAX_DELAY = 4
  MaxPriorities = 3
  RequestedPriority <- MCPriority
  Queues = {mtx, sem}
  Mutexes = {mtx}
  Delays = {2}
  InheritModes = {}
  Waits = {0, 2, 4}
  uxLength <- MCLength
  InitialCount <- MCInitial
  ChecksResult = TRUE
INVARIANT HeadIsHighest
