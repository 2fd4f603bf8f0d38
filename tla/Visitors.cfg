SPECIFICATION VisitSpec
CONSTANTS
  Byte <- Bytes
  PREFIX_LEN = 1
  Keys <- WideKeys
  Values = {v}
  UpperCapacity <- RoomyCapacity
  None = None
INVARIANTS
  TypeOK
  EveryNodeIsReferencedOnce
  ChildrenAreLive
  NodesFitTheirType
  CountIsExact
  SearchKeepsItsPath
  Invariant
  AcceptsEveryTree
  PrefixLeadsToNode
  StatsAreExact
  NothingIsOverused
  VisitorInvariant
CHECK_DEADLOCK TRUE
