SPECIFICATION Spec
CONSTANTS
  Root = Root
  lib = lib
  X = X
  Y = Y
  Whole = Whole
  NoPath = NoPath
  Doc = {Root, lib}
  Fragment = {X, Y}
  PathOrder <- MCPathOrder
  VerbOrder <- MCVerbOrder
  Id = {"getUrls", "postUrls", "root"}
  NoId = NoId
  Versions <- MCVersions
  Overrides <- MCOverrides
  MaxEdits = 0
INVARIANTS
  LocalRefsKeepTheirMeaning
CHECK_DEADLOCK FALSE
