SPECIFICATION Spec
CONSTANTS
  c1 = c1
  c2 = c2
  Consumers = {c1, c2}
  Recoverable = {c1}
  Quitters = {c2}
  Mortal = TRUE
  MaxSubs = 3
  MaxNotes = 2
  MaxConns = 3
INVARIANTS TypeOK InOrder OneFeed MapsAgree RecoverableHeard
CHECK_DEADLOCK FALSE
