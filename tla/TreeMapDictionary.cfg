SPECIFICATION Spec
CONSTANTS
  Byte <- Bytes
  PREFIX_LEN = 2
  Keys <- DeepKeys
  Values = {v, w}
  UpperCapacity <- SmallCapacity
  None = None
INVARIANTS
  AnswerInvariant
PROPERTIES
  ImplementsDictionary
CHECK_DEADLOCK TRUE
