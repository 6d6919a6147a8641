SPECIFICATION Spec
CONSTANTS
  codex = codex
  cline = cline
  Catalog <- CatalogInOrder
  Terminal = {codex}
  Codex = codex
  Installed = {codex, cline}
  Msg = {m1, m2}
  MaxTerminals = 2
  None = None
  Other = Other
SYMMETRY Messages
INVARIANTS ReportIsCurrent
PROPERTIES OneTerminalEach
