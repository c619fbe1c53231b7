------------------------------ MODULE SeatHold ------------------------------
(***************************************************************************)
(* What the seat lock library promises the booking saga: seats are granted *)
(* to a booking all at once and only while no other booking holds one of   *)
(* them; a holder may lose everything it holds, by releasing it or because *)
(* its time is up.  SeatLock implements this specification when it is used *)
(* in the Orderly way, which extends no lock; then so does what BookingSaga*)
(* says of the lock.                                                       *)
(***************************************************************************)
CONSTANTS Bookings, Seats

VARIABLE hold      \* hold[b]: the seats booking b holds

Free(b, seats) == \A c \in Bookings : c # b => hold[c] \cap seats = {}

Init == hold = [b \in Bookings |-> {}]

(* lockSeats succeeds.                                                     *)
Grant(b, seats) ==
  /\ Free(b, seats)
  /\ hold' = [hold EXCEPT ![b] = seats]

(* releaseSeats, or the TTL of some locks runs out.                        *)
Drop(gone) == hold' = [b \in Bookings |-> IF b \in gone THEN {} ELSE hold[b]]

Next ==
  \/ \E b \in Bookings, seats \in SUBSET Seats : Grant(b, seats)
  \/ \E gone \in SUBSET Bookings : Drop(gone)

Spec == Init /\ [][Next]_hold
=============================================================================
