SPECIFICATION FairSpec
CONSTANTS
  Client = {desk, phone1}
  Host = {desk}
  MaxTask = 3
  MaxCommand = 2
  MaxOpens = 4
  Stop = Stop
  None = None
INVARIANTS OneConsumer RunningHasConsumer SentInOrder FirstSessionDropsNothing
PROPERTIES FirstSessionSendsAll SyncTasksEnd
CHECK_DEADLOCK FALSE
