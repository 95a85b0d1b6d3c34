SPECIFICATION Spec
CONSTANTS
  Seqs = {s1}
  Script <- TimeoutScript
  SlotCount = 1
  Timeout = 2
  InputPoll = 3
  HeaderUnits = 1
  ReplyUnits = 1
  SocketUnits = 1
  MaxUnlinks = 0
  MaxTime = 4
SYMMETRY SeqSymmetry
CHECK_DEADLOCK FALSE
PROPERTY TimeoutCompleted
