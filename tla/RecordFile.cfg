CONSTANTS
  Pids <- MCPids
  RECORDS_PER_PAGE = 2
  MAX_VALUE_LENGTH = 2
  Keys = {k1}
  Texts = {t1}
  Lengths <- MCLengths
  NoRecord = NoRecord
  NoRid = NoRid
  Unset <- MCUnset
  Faults = {"open", "read", "write", "close"}
SPECIFICATION Spec
INVARIANT TypeOK
INVARIANT Dense
INVARIANT EndCurrent
PROPERTY ImplementsRecordLog
