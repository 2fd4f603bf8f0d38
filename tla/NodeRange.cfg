SPECIFICATION Spec
CONSTANTS
  Byte <- Bytes
  UpperCapacity <- SmallCapacity
  Child = {x, y}
  None = None
  Uninit = Uninit
  LaneWidth = 2
INVARIANTS
  RangeRespectsBounds
CHECK_DEADLOCK TRUE
