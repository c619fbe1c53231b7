SPECIFICATION Spec
CONSTANTS
  b1 = b1  b2 = b2  s1 = s1
  Bookings = {b1, b2}
  Wants <- SameSeat
  Workers = {1}
  Seats = {s1}
  Extenders = {}
  Serial = TRUE
  ClientsPay = TRUE
  MockWorkers = {}
  Faults = {}
  MaxFaults = 0
  MaxRows = 1
CHECK_DEADLOCK FALSE
INVARIANT NoSeatBookedTwice
