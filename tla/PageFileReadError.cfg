CONSTANTS
  Files = {f1}
  Handles = {h1}
  Fds <- MCFds2
  Pids <- MCPids1
  Contents = {a, b}
  Blank = Blank
  Torn = Torn
  Mixed = Mixed
  NoData = NoData
  NoFile = NoFile
  CACHE_COUNT = 2
  IntMax = 20
  Reach = 2
  ClockBound = 6
  Faults = {"read"}
SPECIFICATION Spec
PROPERTY ReadReturnsPage
