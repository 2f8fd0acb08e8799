SPECIFICATION Spec
CONSTANTS
  r1 = r1
  r2 = r2
  Readers = {r1, r2}
  Histories <- MCHistories
  MayFail = TRUE
INVARIANTS TypeOK VerdictTrue ReadTrue
