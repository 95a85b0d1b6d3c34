SPECIFICATION AllSpec
CONSTANTS
  Parts = {"native", "controller", "uhid", "callback", "demo", "discovery", "editor"}
  Prompt = TRUE
  Size = 2
  States = {neutral, pressed}
  Neutral = neutral
  None = none
  Effects = {0}
  Strengths = {weak}
  Retries = 1
  EventLimit = 2
  Batch = 3
  MaxRequests = 2
  MaxPlays = 2
INVARIANTS
  SessionTruthful
  ControllerSound
  UhidSound
  DrainedOnClose
  DemoOwned
  NothingStuck
PROPERTY
  SelectionKept
CHECK_DEADLOCK FALSE
