SPECIFICATION LiveSpec
CONSTANTS
  Seqs = {s1, s2}
  Script <- AnswerScript
  SlotCount = 2
  Timeout = 2
  InputPoll = 1
  HeaderUnits = 1
  ReplyUnits = 1
  SocketUnits = 1
  MaxUnlinks = 1
  MaxTime = 3
CHECK_DEADLOCK FALSE
INVARIANTS
  RequestsAnswered
PROPERTY Served
