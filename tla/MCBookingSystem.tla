-------------------------- MODULE MCBookingSystem --------------------------
(* BookingSystem for TLC: two bookings of different size, more together    *)
(* than the flight has seats.                                              *)
EXTENDS BookingSystem, TLC

CONSTANTS b1, b2, s1

SameSeat == (b1 :> {s1}) @@ (b2 :> {s1})
OneAndTwo == (b1 :> 1) @@ (b2 :> 2)
=============================================================================
