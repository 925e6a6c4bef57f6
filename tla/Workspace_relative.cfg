\* Absolute executable paths, all standard fds open at launch.
\* The installer exits after it has sent its response, so the final state
\* is where the process really stops: deadlock is not an error here.
CONSTANTS
  Names = {".studio", "bin", "data"}
  kBasename = ".studio"
  MaxDepth = 4
  RelativePaths = TRUE
  LaunchClosed = {{}}
  MaxFd = 4
SPECIFICATION Spec
CHECK_DEADLOCK FALSE
PROPERTY WorkspaceConstructed
