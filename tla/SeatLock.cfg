SPECIFICATION Spec
CONSTANTS
  b1 = b1  b2 = b2  b3 = b3
  w1 = w1  w2 = w2  w3 = w3
  s1 = s1  s2 = s2
  NoBooking = NoBooking
  Bookings <- ThreeBookings
  Workers <- ThreeWorkers
  Serves <- OneWorkerEach3
  Seats = {s1, s2}
  Extenders = {}
  Prompt = TRUE
  LOCK_TTL = 2
  Extension = 1
  MaxClock = 4
  MaxDrop = 0
SYMMETRY SeatSymmetry
INVARIANTS NoDoubleHold ClaimBacked SeatReleasable
PROPERTY ImplementsSeatHold
