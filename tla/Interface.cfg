SPECIFICATION FairSpec
CONSTANTS
  t1 = t1
  t2 = t2
  t3 = t3
  Tasks = {t1, t2}
  Plans <- OneAuto
  Fallbacks = 2
  Forever = FALSE
  MaxSockets = 3
INVARIANTS TypeOK Distinct NoGap
PROPERTIES EndsUnlessCut
CHECK_DEADLOCK FALSE
