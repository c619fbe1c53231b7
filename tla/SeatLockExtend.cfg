SPECIFICATION Spec
CONSTANTS
  b1 = b1  b2 = b2  b3 = b3
  w1 = w1  w2 = w2  w3 = w3
  s1 = s1  s2 = s2
  NoBooking = NoBooking
  Bookings <- TwoBookings
  Workers <- TwoWorkers
  Serves <- OneWorkerEach2
  Seats = {s1, s2}
  Extenders = {b1, b2}
  Prompt = TRUE
  LOCK_TTL = 3
  Extension = 2
  MaxClock = 4
  MaxDrop = 6
SYMMETRY SeatSymmetry
INVARIANTS LockExpiresWhole
