SPECIFICATION Spec
CONSTANTS
  c1 = c1
  c2 = c2
  Clients = {c1}
  Plan <- Singles
  Pollers = {}
  Cancellable = {}
  MaxPermits = 1
  MaxRetries = 2
  AutoShutdown = FALSE
  Closures = {"lost"}
  Cycle = 1
  MaxConns = 2
  MaxHandlers = 1
INVARIANTS AnswerWakes
CHECK_DEADLOCK FALSE
