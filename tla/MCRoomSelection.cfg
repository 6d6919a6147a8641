SPECIFICATION SyncSpec
CONSTANTS
  Host = {h1, h2}
  Phone = {p1}
  Project = {a, b, blank}
  Folder = {a, b}
  MaxListed = 2
  None = None
INVARIANTS SnapshotAgrees
PROPERTIES SelectionNotStolen OrphanIsReplaced
CHECK_DEADLOCK FALSE
