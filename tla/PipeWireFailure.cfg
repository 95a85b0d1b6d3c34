SPECIFICATION AllSpec
CONSTANTS
  Parts = {"pipewire"}
  Capacity = 2
  Channels = 2
  MaxFrame = 4
  MaxBatch = 2
INVARIANT
  AudioFailureRetained
CHECK_DEADLOCK FALSE
