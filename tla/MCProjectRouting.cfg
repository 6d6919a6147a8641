SPECIFICATION FairRoutingSpec
CONSTANTS
  h1 = h1  h2 = h2  h3 = h3
  w1 = w1  w2 = w2
  a = a  b = b
  Window = {w1, w2}
  Host = {h1, h2, h3}
  Phone = {p1}
  Project = {a, b, blank}
  Folder = {a, b}
  Blank = blank
  First = h3
  WindowOf <- MCWindowOf
  Layouts <- MCLayouts
  MaxChanges = 2
  MaxWire = 1
  MaxListed = 2
  None = None
INVARIANTS RoutingTypeOK RunsWhereAsked RegistryIsCurrent
PROPERTIES RegistryShowsWhatIsOpen
CHECK_DEADLOCK FALSE
