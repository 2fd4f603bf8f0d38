SPECIFICATION RepresentationsSpec
CONSTANTS
  Byte <- FourBytes
  Types <- PathTypes
  MaxLen = 3
  None = None
  Absent = Absent
  Panic = Panic
  MIN_BITS = 3
  EndOfMemory = 64
  MaxNodes = 0
  EntryAlignments = {8}
INVARIANTS
  ComparesLikeValues
CHECK_DEADLOCK TRUE
