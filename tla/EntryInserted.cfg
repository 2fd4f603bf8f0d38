SPECIFICATION EntrySpec
CONSTANTS
  Byte <- Bytes
  PREFIX_LEN = 1
  Keys <- EntryKeys
  Values = {v}
  UpperCapacity <- SmallCapacity
  None = None
  RemovesInserted = TRUE
INVARIANTS
  DeletePointIsCurrent
CHECK_DEADLOCK TRUE
