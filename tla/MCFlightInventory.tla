------------------------- MODULE MCFlightInventory -------------------------
(* Instances of FlightInventory for TLC: two bookings of a flight with     *)
(* three seats, one of which is cancelled and one confirmed.               *)
EXTENDS FlightInventory, TLC

MCEvents == {"reserve1", "release1", "reserve2", "confirm2"}
MCKind == [reserve1 |-> "reserve", release1 |-> "release",
           reserve2 |-> "reserve", confirm2 |-> "confirm"]
MCBookingOf == [reserve1 |-> 1, release1 |-> 1, reserve2 |-> 2, confirm2 |-> 2]
MCCount == [reserve1 |-> 2, release1 |-> 2, reserve2 |-> 2, confirm2 |-> 2]
=============================================================================
