SPECIFICATION FairSpec
CONSTANTS
  Lengths = {0, 1, 4, 5, 7}
  MaxChanges = 3
  PageSize = 2
  MaxPages = 3
INVARIANTS
  LossBoundedByRemovals
  NoDuplicates
  ExactWhenQuiet
PROPERTIES
  ExportEnds
CHECK_DEADLOCK FALSE
