CONSTANTS
  Files = {f1, f2}
  Handles = {h1, h2}
  Fds <- MCFds2
  Pids <- MCPids0
  Contents = {a, Blank}
  Blank = Blank
  Torn = Torn
  Mixed = Mixed
  NoData = NoData
  NoFile = NoFile
  CACHE_COUNT = 2
  IntMax = 9
  Reach = 2
  ClockBound = 3
  Faults = {"open", "write"}
SPECIFICATION Spec
INVARIANT Separate
PROPERTY ImplementsPageStore
