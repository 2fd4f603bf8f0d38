SPECIFICATION PanicSpec
CONSTANTS
  Byte <- Bytes
  PREFIX_LEN = 1
  Keys <- DeepKeys
  Values = {v}
  UpperCapacity <- SmallCapacity
  None = None
INVARIANTS
  FreedOnce
CHECK_DEADLOCK TRUE
