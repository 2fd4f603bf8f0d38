SPECIFICATION FairSpec
CONSTANTS
  Byte <- Bytes
  PREFIX_LEN = 1
  Keys <- DeepAndWideKeys
  Values = {v}
  UpperCapacity <- SmallCapacity
  None = None
INVARIANTS
  PrefixesAreFaithful
  RoutesToEveryNode
  ShapeIsCanonical
  DepthStaysInBounds
  PointsAreApplicable
  KeysArePrefixFree
  TeardownIsExact
PROPERTIES
  CallsReturn
CHECK_DEADLOCK TRUE
