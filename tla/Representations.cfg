SPECIFICATION RepresentationsSpec
CONSTANTS
  Byte <- FourBytes
  Types <- KeyTypes
  MaxLen = 2
  None = None
  Absent = Absent
  Panic = Panic
  MIN_BITS = 3
  EndOfMemory = 64
  MaxNodes = 3
  EntryAlignments = {1, 8, 16}
INVARIANTS
  ComparesLikeValues
  GetsBackTheValue
  NeitherIsAPrefix
  PointersLeadToNodes
  PointersIdentifyNodes
CHECK_DEADLOCK TRUE
