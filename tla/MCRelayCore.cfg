SPECIFICATION Spec
CONSTANTS
  Host = {h1, h2}
  SessionId = {s1, s2}
  DeviceId = {d1, d2, d3}
  Code = {c1, c2}
  NoSession = NoSession
  NoDevice = NoDevice
  NoChallenge = NoChallenge
  Unlimited = Unlimited
  MaxMessages = 1
  Ttls = {0}
  MaxNow = 2
  MaxSeq = 2
  MaxOpened = 1
SYMMETRY Symmetry
INVARIANTS OnePhonePerCode RetainedWindow ReplayLeavesNoGap CursorBehindSession
PROPERTY RevocationIsFinal
CHECK_DEADLOCK FALSE
