SPECIFICATION Spec
CONSTANTS
  c1 = c1
  c2 = c2
  Clients = {c1, c2}
  Plan <- Singles
  Pollers = {c1}
  Cancellable = {c2}
  MaxPermits = 2
  MaxRetries = 2
  AutoShutdown = TRUE
  Closures = {"lost"}
  Cycle = 1
  MaxConns = 3
  MaxHandlers = 3
INVARIANTS AnswersMatch PermitsAccounted MarksCounted EndsBalanced
CHECK_DEADLOCK FALSE
