\* Three handler threads serving one process: concurrent stop requests.
CONSTANTS
  p1 = p1
  p2 = p2
  t1 = t1
  t2 = t2
  t3 = t3
  None = None
  Pids <- MCPids
  Threads <- MCThreadsShared3
  CallerPid <- MCCallerShared3
  MaxTraceId = 3
  StudioCaptures = FALSE

SPECIFICATION Spec

INVARIANT StopEndsOwnCapture
