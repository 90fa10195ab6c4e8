SPECIFICATION Spec
CONSTANTS
  LeafMax = 3
  InnerMax = 3
  Keys <- MCKeys2
  Searched <- MCSearch2
  MaxInserts = 5
  Duplicates = TRUE
  Faults = {"read", "write", "drop"}
INVARIANTS
  NodesSorted
