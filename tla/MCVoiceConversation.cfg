SPECIFICATION ConversationSpec
CONSTANTS
  t1 = t1
  t2 = t2
  t3 = t3
  Turns = {t1, t2, t3}
  Heard <- MCHeard
  Bounds = {3, 4}
SYMMETRY Symmetry
INVARIANTS
  ModelSeesExchanges
  HistoryIsAnswered
  AnsweredInLanguage
CHECK_DEADLOCK FALSE
