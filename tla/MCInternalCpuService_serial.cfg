\* One handler thread per process, Studio captures on.
CONSTANTS
  p1 = p1
  p2 = p2
  t1 = t1
  t2 = t2
  t3 = t3
  None = None
  Pids <- MCPids
  Threads <- MCThreadsSerial
  CallerPid <- MCCallerSerial
  MaxTraceId = 3
  StudioCaptures = TRUE

SPECIFICATION Spec

INVARIANT TypeOK
INVARIANT GrantedCaptureNotLost
INVARIANT StopEndsOwnCapture
