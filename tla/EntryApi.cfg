SPECIFICATION EntrySpec
CONSTANTS
  Byte <- Bytes
  PREFIX_LEN = 0
  Keys <- EntryKeys
  Values = {v, w}
  UpperCapacity <- SmallCapacity
  None = None
  RemovesInserted = FALSE
INVARIANTS
  EntryIsCurrent
PROPERTIES
  ImplementsDictionary
CHECK_DEADLOCK TRUE
