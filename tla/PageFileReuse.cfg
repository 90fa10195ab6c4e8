CONSTANTS
  Files = {f1}
  Handles = {h1}
  Fds <- MCFds2
  Pids <- MCPids1
  Contents = {a, Blank}
  Blank = Blank
  Torn = Torn
  Mixed = Mixed
  NoData = NoData
  NoFile = NoFile
  CACHE_COUNT = 2
  IntMax = 1
  Reach = 2
  ClockBound = 2
  Faults = {"open", "write"}
SPECIFICATION Spec
INVARIANT TypeOK
INVARIANT UniqueTags
INVARIANT NoOrphanSlots
INVARIANT CacheCoherent
INVARIANT EpidCurrent
