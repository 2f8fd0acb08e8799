SPECIFICATION Spec
CONSTANTS
  Keys = {1, 2, 3, 4}
  Queries <- MCQueries
  MaxChanges = 2
INVARIANTS TypeOK Once Whole OfTheBlock
CHECK_DEADLOCK FALSE
