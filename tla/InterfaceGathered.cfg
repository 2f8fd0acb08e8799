SPECIFICATION Spec
CONSTANTS
  t1 = t1
  t2 = t2
  t3 = t3
  Tasks = {t1, t2, t3}
  Plans <- AllGiven
  Fallbacks = 0
  Forever = FALSE
  MaxSockets = 1
INVARIANTS Distinct
CHECK_DEADLOCK FALSE
