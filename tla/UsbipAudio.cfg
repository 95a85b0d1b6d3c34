SPECIFICATION Spec
CONSTANTS
  Seqs = {s1, s2}
  Script <- StreamScript
  SlotCount = 2
  Timeout = 3
  InputPoll = 1
  HeaderUnits = 2
  ReplyUnits = 1
  SocketUnits = 1
  MaxUnlinks = 1
  MaxTime = 4
SYMMETRY SeqSymmetry
CHECK_DEADLOCK FALSE
INVARIANTS
  DeadlinesEnforced
  StreamSound
