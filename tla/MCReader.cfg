SPECIFICATION Spec
CONSTANTS
  Capacity = 3
  UsizeMax = 9
  MaxChunk = 5
  MaxBytes = 8
  MaxNest = 2
  Junk = Junk
  None = None
INVARIANTS
  NothingLost
  ChunksComeBack
PROPERTY IsACursor
CHECK_DEADLOCK FALSE
