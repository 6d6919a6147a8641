SPECIFICATION Spec
CONSTANTS
  MaxRun = 3
  MaxReply = 2
  None = None
INVARIANTS MarkHasTarget ActiveIsNewest RunningIsRemembered RepliesPrintedOnce
PROPERTIES SilentOnlyBesideStraggler
CHECK_DEADLOCK FALSE
