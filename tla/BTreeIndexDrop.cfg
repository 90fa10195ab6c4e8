SPECIFICATION Spec
CONSTANTS
  LeafMax = 3
  InnerMax = 3
  Keys <- MCKeys2
  Searched = {}
  MaxInserts = 6
  Duplicates = TRUE
  Faults = {"drop"}
INVARIANTS
  Kept
  Balanced
