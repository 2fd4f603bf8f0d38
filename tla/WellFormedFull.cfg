SPECIFICATION VisitSpec
CONSTANTS
  Byte <- Bytes
  PREFIX_LEN = 1
  Keys <- WideKeys
  Values = {v}
  UpperCapacity <- SmallCapacity
  None = None
INVARIANTS
  AcceptsEveryTree
CHECK_DEADLOCK TRUE
