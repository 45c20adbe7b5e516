SPECIFICATION PrioritizeSpec
CONSTANTS
  Elements <- MCElements
  Selected <- MCSelected
  Unmarked = Unmarked
INVARIANTS
  MovedOnTop
  SelectorBackRestores
