SPECIFICATION FairSpec
CONSTANTS
  c1 = c1
  c2 = c2
  Clients = {c1, c2}
  Plan <- BatchOfTwo
  Pollers = {c1}
  Cancellable = {}
  MaxPermits = 2
  MaxRetries = 2
  AutoShutdown = FALSE
  Closures = {"lost", "ended"}
  Cycle = 3
  MaxConns = 2
  MaxHandlers = 2
INVARIANTS TypeOK OneHandler OneSocket ConnectionOwned SingleBooking
PROPERTIES ImplementsService EndsOrClosed
CHECK_DEADLOCK FALSE
