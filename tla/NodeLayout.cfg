SPECIFICATION Spec
CONSTANTS
  Byte <- Bytes
  UpperCapacity <- SmallCapacity
  Child = {x, y}
  None = None
  Uninit = Uninit
  LaneWidth = 2
INVARIANTS
  LayoutIsSound
  IterationIsOrdered
  Node16KeysAreFilled
  RangesAreExact
  VectorSearchAgrees
PROPERTIES
  ImplementsChildren
CHECK_DEADLOCK TRUE
