SPECIFICATION SystemSpec
CONSTANTS
  b1 = b1  b2 = b2  s1 = s1
  Bookings = {b1, b2}
  Wants <- SameSeat
  SeatCount <- OneAndTwo
  Workers = {1}
  Seats = {s1}
  Extenders = {}
  Serial = TRUE
  ClientsPay = TRUE
  MockWorkers = {}
  Faults = {"commit", "rpc"}
  MaxFaults = 1
  MaxRows = 1
  Consumers = {c1}
  Capacity = 2
  MaxCopies = 1
  MaxFailures = 0
CHECK_DEADLOCK FALSE
INVARIANTS FlightFollowsBookings SeatsAddUp NotOversold
