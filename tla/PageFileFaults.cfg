CONSTANTS
  Files = {f1}
  Handles = {h1}
  Fds <- MCFds1
  Pids <- MCPids2
  Contents = {a}
  Blank = Blank
  Torn = Torn
  Mixed = Mixed
  NoData = NoData
  NoFile = NoFile
  CACHE_COUNT = 2
  IntMax = 20
  Reach = 3
  ClockBound = 4
  Faults = {"read", "short", "close"}
SPECIFICATION Spec
INVARIANT UniqueTags
PROPERTY ImplementsLru
