SPECIFICATION Spec
CONSTANTS
  Pids = {0, 1, 2}
  RECORDS_PER_PAGE = 2
  NoRecord = NoRecord
  NoRid = NoRid
  Dummies = 2
  Lines <- LoadedLines
  DummyKeys = {2}
  NoValue = 0
  CondLists <- SelectedConds
  Duplicates = FALSE
  NFds = 2
  Faults = {"open", "read", "append", "restart"}
  MaxExtra = 1
INVARIANTS
  TypeOK
  IndexPointsToRows
  FirstPageNotIndexed
  MissingIsLast
  SelectExact
PROPERTIES
  CommandReturns
