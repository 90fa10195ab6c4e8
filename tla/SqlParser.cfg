SPECIFICATION Spec
CONSTANTS
  Names = {"key", "value", "movie"}
  Literals = {"17"}
  Comparators <- MCComparators
  MaxLine = 13
INVARIANTS
  TypeOK
  Ownership
  StackBounded
PROPERTIES
  PromptFirst
  AnswersLine
  ReportsOnce
  AsksAgain
CHECK_DEADLOCK FALSE
