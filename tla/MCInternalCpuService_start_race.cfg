\* Two handler threads serving one process: concurrent start requests.
CONSTANTS
  p1 = p1
  p2 = p2
  t1 = t1
  t2 = t2
  t3 = t3
  None = None
  Pids <- MCPids
  Threads <- MCThreadsShared2
  CallerPid <- MCCallerShared2
  MaxTraceId = 3
  StudioCaptures = FALSE

SPECIFICATION Spec

INVARIANT GrantedCaptureNotLost
