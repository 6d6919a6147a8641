SPECIFICATION Spec
CONSTANTS
  Page = {p1}
  Runtime = {k1, k2}
  Text = {t1, t2}
  MaxAsked = 2
  MaxLog = 3
  MaxRestarts = 0
SYMMETRY Interchangeable
INVARIANTS EveryRequestIsOffered
CHECK_DEADLOCK FALSE
