CONSTANTS
  p1 = p1  p2 = p2
  Pids <- MCPids
  Threshold = 2
  None = None
SPECIFICATION Spec
INVARIANT DetachedOnlyWhenSilent
