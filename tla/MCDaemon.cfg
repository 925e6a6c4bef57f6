\* Two RPC threads, two processes, two samplers per session; BeginSession
\* also comes from legacy callers with a post callback.  FairSpec adds the
\* fairness of section 4 of the README for the liveness of Execute.
\* Deadlock checking is off because ExecuteReturns covers it: an idle thread
\* can always Execute an END_SESSION while mutex_ is free, so a state with no
\* successor has an Execute that never returns or a mutex_ never released.
CONSTANTS
  p1 = p1
  p2 = p2
  r1 = r1
  r2 = r2
  None = None
  Pids <- MCPids
  RpcThreads <- MCRpcThreads
  SamplerKinds <- MCSamplerKinds
  UnifiedPipeline = TRUE
  MaxSessions = 2
  MaxEvents = 3
  LegacyCallers = TRUE
  ReadFailures = FALSE

SPECIFICATION FairSpec

INVARIANT NoEventAfterEnd
INVARIANT EndReturnsTrueOnce
INVARIANT PostSeesOwnSession
PROPERTY ExecuteReturns

CHECK_DEADLOCK FALSE
