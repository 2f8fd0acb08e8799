SPECIFICATION Spec
CONSTANTS
  t1 = t1
  t2 = t2
  Tasks = {t1, t2}
  Asks <- MCAsks
  Startup = startup
  Blocks = {1, 2, 3, 4}
  Parent <- MCParent
  Number <- MCNumber
  Version <- MCVersion
  Initial = 2
  Known <- MCKnown
  Capacity = 1
  MayFail = TRUE
INVARIANTS TypeOK CacheTrue RuntimeFits Led
SYMMETRY Alike
