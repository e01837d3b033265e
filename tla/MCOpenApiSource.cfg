SPECIFICATION FairSpec
CONSTANTS
  Root = Root
  lib = lib
  X = X
  Y = Y
  Whole = Whole
  NoPath = NoPath
  Doc = {Root, lib}
  Fragment = {X, Y}
  PathOrder <- MCPathOrder
  VerbOrder <- MCVerbOrder
  Id = {"getUrls", "postUrls", "root"}
  NoId = NoId
  Versions <- MCVersions
  Overrides <- MCOverrides
  MaxEdits = 1
INVARIANTS
  SourceTypeOK
  OutcomeExact
  ServedAsDocumented
  NamesFollowOverrides
PROPERTIES
  LoadEnds
CHECK_DEADLOCK FALSE
