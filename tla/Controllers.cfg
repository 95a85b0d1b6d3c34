SPECIFICATION AllSpec
CONSTANTS
  Parts = {"pads", "steam", "wii"}
  Bytes = {0, 255}
  Words <- MCWords
  Motion <- MCMotion
  Contacts <- MCContacts
  Levels = {0, 5, 101}
  Families = {"dualsense", "dualshock4", "switch", "xbox"}
  Counter = 2
  MaxPending = 2
  InputQueue = 3
  EventCost = 2
  EditCost = 3
  MaxCalls = 6
INVARIANTS
  PadsShowState
  PadsServeHost
  WiiShowsState
  WiiServesHost
  SteamTruthful
CHECK_DEADLOCK FALSE
