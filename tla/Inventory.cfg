SPECIFICATION Spec
CONSTANTS
  Events <- MCEvents
  Kind <- MCKind
  BookingOf <- MCBookingOf
  Count <- MCCount
  Consumers = {c1, c2}
  Capacity = 3
  MaxCopies = 2
  MaxFailures = 1
CHECK_DEADLOCK FALSE
INVARIANTS SeatsConserved WithinCapacity ReleasesKept
