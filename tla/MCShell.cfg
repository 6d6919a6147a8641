CONSTANTS
  Call = {s1, s2}
  Cap = 1
  MaxLines = 3
  MaxTerminal = 2
SPECIFICATION FairSpec
INVARIANTS Transcript
PROPERTIES NoCallIsForgotten
CHECK_DEADLOCK FALSE
