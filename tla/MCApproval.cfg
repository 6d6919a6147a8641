SPECIFICATION Spec
CONSTANTS
  Page = {p1, p2}
  Runtime = {k1}
  Text = {t1}
  MaxAsked = 2
  MaxLog = 2
  MaxRestarts = 1
SYMMETRY Interchangeable
INVARIANTS AnsweredStaysAnswered AnswersMeetTheirQuestion
CHECK_DEADLOCK FALSE
