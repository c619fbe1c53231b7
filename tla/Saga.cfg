SPECIFICATION Spec
CONSTANTS
  b1 = b1  b2 = b2  s1 = s1
  Bookings = {b1, b2}
  Wants <- SameSeat
  Workers = {1, 2}
  Seats = {s1}
  Extenders = {b1}
  Serial = TRUE
  ClientsPay = TRUE
  MockWorkers = {2}
  Faults = {"tx", "commit", "reload", "redis", "lock_reply", "rpc", "timeout", "undo", "crash"}
  MaxFaults = 2
  MaxRows = 2
CHECK_DEADLOCK FALSE
INVARIANTS RowsAgree CancelledFreesSeats PendingHoldsSeats NothingHalfCreated
 
