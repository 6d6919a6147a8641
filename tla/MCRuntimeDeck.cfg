SPECIFICATION FairDeckSpec
CONSTANTS
  codex = codex
  cline = cline
  Catalog <- CatalogInOrder
  Terminal = {codex}
  Codex = codex
  Installed = {codex, cline}
  Msg = {m1}
  MaxTerminals = 2
  MaxBatch = 2
  MaxOthers = 1
  MaxWire = 1
  None = None
  Other = Other
INVARIANTS ButtonsAreHonest
PROPERTIES PendingIsKept PendingIsAnswered
CHECK_DEADLOCK FALSE
