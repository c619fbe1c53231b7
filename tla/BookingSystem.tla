--------------------------- MODULE BookingSystem ---------------------------
(***************************************************************************)
(* The bookings of one flight, from the saga to the seats of the flight:   *)
(* booking-service (BookingSaga) leaves seat events in its outbox, which   *)
(* relays them (EventRelay, implemented by Outbox) to flight-service       *)
(* (FlightInventory).  Nothing goes back: the saga does not learn what     *)
(* became of a reservation.                                                *)
(***************************************************************************)
EXTENDS BookingSaga, Integers, FiniteSetsExt

CONSTANTS
  SeatCount,    \* SeatCount[b]: seatCount in the events of b
  Consumers,    \* messages flight-service handles at once
  Capacity,     \* seats available at first
  MaxCopies,    \* bound: how often the outbox publishes an event
  MaxFailures   \* bound: database failures and crashes of flight-service

ASSUME SystemAssumption ==
  /\ SeatCount \in [Bookings -> Nat]
  /\ {Capacity, MaxCopies, MaxFailures} \subseteq Nat
  /\ MaxRows > 0

VARIABLES available, processed, copies, queue, handler, failures

flight == <<available, processed, copies, queue, handler, failures>>

(* The rows of the seat events: <<booking, kind, number>>, of which the    *)
(* bound MaxRows leaves the first ones.                                    *)
SeatEvents == Bookings \X {"reserve", "confirm", "release"} \X (1..MaxRows)

RoutingKey == [reserve |-> "flight.reserve-seats", confirm |-> "flight.confirm-seats",
               release |-> "flight.release-seats"]

(* Mutant: an event can be sent before the transaction of its row commits. *)
StoredEarly == {e \in SeatEvents : e[3] <= outbox[e[1]][RoutingKey[e[2]]] + 1}

Stored == {e \in SeatEvents : e[3] <= outbox[e[1]][RoutingKey[e[2]]]}

Flight == INSTANCE FlightInventory WITH
  Events    <- SeatEvents,
  Kind      <- [e \in SeatEvents |-> e[2]],
  BookingOf <- [e \in SeatEvents |-> e[1]],
  Count     <- [e \in SeatEvents |-> SeatCount[e[1]]]

Relay == INSTANCE EventRelay WITH
  Events <- SeatEvents, stored <- Stored, sent <- copies

SystemInit == Init /\ Flight!Init

(* The outbox sends a stored event, which joins its queue.                 *)
RelayEvent(e) ==
  /\ UNCHANGED vars
  /\ Relay!Send(e)
  /\ Flight!Publish(e)

(* flight-service and its queues.                                          *)
Consume ==
  /\ \/ \E e \in SeatEvents : Flight!ReservationExpires(e)
     \/ \E e \in SeatEvents, c \in Consumers : Flight!Deliver(c, e)
     \/ \E c \in Consumers : Flight!Handle(c) \/ Flight!Fails(c)
  /\ UNCHANGED vars

SystemNext ==
  \/ Next /\ UNCHANGED flight
  \/ \E e \in SeatEvents : RelayEvent(e)
  \/ Consume

SystemSpec == SystemInit /\ [][SystemNext]_<<vars, flight>>

-----------------------------------------------------------------------------
(* Properties.                                                             *)
Applied(b, kind) == \E n \in 1..MaxRows : <<b, kind, n>> \in processed

Live(b) == booking[b] \in {"PENDING", "BOOKED"}

SeatsFor(bookings) == MapThenSumSet(LAMBDA b : SeatCount[b], bookings)

(* What the flight has done for a booking is what the booking stands for:  *)
(* seats are given back for cancelled bookings only, taken for bookings    *)
(* that asked for them, and confirmed for paid ones, whatever fails, is    *)
(* sent twice, late or in another order (step 3, completeBooking and       *)
(* compensate against the handlers).  A booking completed after its        *)
(* cancellation is excepted: its seats were given back, and it is BOOKED.  *)
FlightFollowsBookings ==
  \A b \in Bookings \ revived :
    /\ Applied(b, "release") => booking[b] = "CANCELLED"
    /\ Applied(b, "reserve") => Live(b) \/ booking[b] = "CANCELLED"
    /\ Applied(b, "confirm") => booking[b] \in {"BOOKED", "CANCELLED"}

(* Once flight-service has applied what booking-service stored, the two    *)
(* agree: what is free and what live bookings have is the capacity, so     *)
(* that each failed or cancelled booking has given back what it took (the  *)
(* compensation of steps 2 and 3 and of the payment intent), unless a      *)
(* failed commit left the saga's copy ahead of its row, or a booking was   *)
(* completed after its cancellation.                                       *)
SeatsAddUp ==
  "commit" \notin faults.kinds /\ revived = {} /\ Stored \subseteq processed =>
    available + SeatsFor({b \in Bookings : Live(b)}) = Capacity

(* As long as no release is carried out before or without its reservation, *)
(* the seats that the flight has taken for bookings exist                  *)
(* (handleReserveSeats, and the rows of step 3 and compensate).  A booking *)
(* completed after its cancellation could be cancelled again, and would    *)
(* give its seats back twice.                                              *)
NotOversold ==
  /\ revived = {}
  /\ \A b \in Bookings : Applied(b, "release") => Applied(b, "reserve")
  => SeatsFor({b \in Bookings : Applied(b, "reserve") /\ ~Applied(b, "release")})
       <= Capacity
=============================================================================
