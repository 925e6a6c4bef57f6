\* A sampler's read of /proc fails, as it does once the process has exited:
\* CpuUsageDataSampler::Sample still appends the event.
CONSTANTS
  p1 = p1
  p2 = p2
  r1 = r1
  r2 = r2
  None = None
  Pids <- MCPids
  RpcThreads <- MCRpcThreads
  SamplerKinds <- MCSamplerKinds
  UnifiedPipeline = TRUE
  MaxSessions = 2
  MaxEvents = 3
  LegacyCallers = TRUE
  ReadFailures = TRUE

SPECIFICATION Spec

INVARIANT NoEventFromFailedRead
