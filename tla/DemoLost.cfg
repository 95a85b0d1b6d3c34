SPECIFICATION AllSpec
CONSTANTS
  Parts = {"editor"}
  Prompt = FALSE
  Size = 2
  States = {neutral, pressed}
  Neutral = neutral
  None = none
  Effects = {0}
  Strengths = {weak}
  Retries = 1
  EventLimit = 2
  Batch = 3
  MaxRequests = 2
  MaxPlays = 2
INVARIANT
  NothingStuck
CHECK_DEADLOCK FALSE
