SPECIFICATION AllLiveSpec
CONSTANTS
  Parts = {"ipc", "stream", "pipewire", "usb", "worker", "callback", "broker"}
  SourceCapacity = 2
  DestCapacity = 1
  BlockFrames = 2
  HeaderUnits = 2
  PipeUnits = 3
  Deadline = 2
  MaxFrame = 4
  MaxTime = 3
INVARIANT
  FramesKept
PROPERTY
  CallsReturn
CHECK_DEADLOCK FALSE
