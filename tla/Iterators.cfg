SPECIFICATION MapIterSpec
CONSTANTS
  Byte <- FewBytes
  PREFIX_LEN = 1
  Keys <- IterKeys
  Values = {v}
  UpperCapacity <- SmallCapacity
  None = None
  SearchPrefixes <- IterPrefixes
  SearchKeys <- FuzzySearchKeys
  MaxEdits <- FuzzyMaxEdits
INVARIANTS
  SizeIsRight
  DepthsLeadToNodes
  RowsBelongToNodes
  IterInvariant
PROPERTIES
  ImplementsIterator
CHECK_DEADLOCK TRUE
