--------------------------- MODULE MCBookingSaga ---------------------------
(* Instances of BookingSaga for TLC: two bookings that want the same seat. *)
EXTENDS BookingSaga, TLC

CONSTANTS b1, b2, s1

SameSeat == (b1 :> {s1}) @@ (b2 :> {s1})
OneBooking == (b1 :> {s1})
=============================================================================
