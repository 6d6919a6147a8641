SPECIFICATION FairConnectionSpec
CONSTANTS
  Call = {call1, call2}
  Sock = {s1, s2, s3}
  MaxAttempt = 2
  NoSocket = NoSocket
INVARIANTS NeverStranded DisconnectedStays OnlyCurrentIsHeard
PROPERTIES ComesBack
