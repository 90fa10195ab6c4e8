SPECIFICATION Spec
CONSTANTS
  LeafMax = 3
  InnerMax = 3
  Keys <- MCKeys3
  Searched <- MCSearch3
  MaxInserts = 7
  Duplicates = TRUE
  Faults = {}
INVARIANTS
  TypeOK
  ChainOrdered
  LeafFound
PROPERTIES
  ImplementsOrderedIndex
  BackIsBehind
