SPECIFICATION AllSpec
CONSTANTS
  Parts = {"queue", "stream", "pipewire", "usb", "bridge", "worker", "lab"}
  Capacity = 2
  Channels = 2
  MaxFrame = 4
  MaxBatch = 2
INVARIANTS
  SlotOwnership
  StreamAccounted
  AudioOwned
  BridgeAccounted
  WorkerAgreed
  RouterSound
PROPERTIES
  ImplementsQueue
  StreamsKept
CHECK_DEADLOCK FALSE
