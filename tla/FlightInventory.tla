-------------------------- MODULE FlightInventory --------------------------
(***************************************************************************)
(* The seat inventory of flight-service: FlightEventHandler consuming the  *)
(* seat events of booking-service, for one flight and one seat class.      *)
(*                                                                         *)
(* The broker delivers a message at least once: the outbox may publish an  *)
(* event twice, and a message is redelivered until it is acknowledged.     *)
(* Each event type has its own queue, so events of different types arrive  *)
(* in any order.  A handler looks the event id up in processed_events and, *)
(* after an await, changes the inventory and records the id in one         *)
(* transaction; event_id is unique there.                                  *)
(***************************************************************************)
EXTENDS Integers, FiniteSetsExt

CONSTANTS
  Events,       \* ids of the outbox events
  Kind,         \* Kind[e]: "reserve", "confirm" or "release"
  BookingOf,    \* BookingOf[e]: the booking the event is about
  Count,        \* Count[e]: seatCount
  Consumers,    \* messages handled concurrently (prefetch, instances)
  Capacity,     \* seats available at first
  MaxCopies,    \* bound: how often the outbox publishes an event
  MaxFailures   \* bound: database failures and crashes of consumers

ASSUME ConstantsAssumption ==
  /\ Kind \in [Events -> {"reserve", "confirm", "release"}]
  /\ Count \in [Events -> Nat]
  /\ Capacity \in Nat
  /\ MaxCopies \in Nat
  /\ MaxFailures \in Nat

VARIABLES
  available,    \* flights.<class>_seats_available
  processed,    \* processed_events
  copies,       \* copies[e]: times the outbox published e
  queue,        \* queue[e]: messages for e waiting in the broker
  handler,      \* the message each consumer is handling
  failures      \* failures so far

vars == <<available, processed, copies, queue, handler, failures>>

NoEvent == "none"
Idle == [pc |-> "idle", event |-> NoEvent]

TypeOK ==
  /\ available \in Nat
  /\ processed \in SUBSET Events
  /\ copies \in [Events -> Nat]
  /\ queue \in [Events -> Nat]
  /\ handler \in [Consumers -> [pc : {"idle", "check", "tx", "ack"},
                                event : Events \cup {NoEvent}]]
  /\ \A c \in Consumers : handler[c].pc # "idle" => handler[c].event \in Events
  /\ failures \in Nat

Init ==
  /\ available = Capacity
  /\ processed = {}
  /\ copies = [e \in Events |-> 0]
  /\ queue = [e \in Events |-> 0]
  /\ handler = [c \in Consumers |-> Idle]
  /\ failures = 0

Goto(c, pc) == handler' = [handler EXCEPT ![c].pc = pc]

(* The handler returns: the message is acknowledged and gone.              *)
Ack(c) == handler' = [handler EXCEPT ![c] = Idle] /\ UNCHANGED queue

(* The handler throws or dies: the message goes back to its queue.         *)
Requeue(c) ==
  /\ handler' = [handler EXCEPT ![c] = Idle]
  /\ queue' = [queue EXCEPT ![handler[c].event] = @ + 1]

-----------------------------------------------------------------------------
(* The outbox publishes e, perhaps once more.                              *)
Publish(e) ==
  /\ copies[e] < MaxCopies
  /\ copies' = [copies EXCEPT ![e] = @ + 1]
  /\ queue' = [queue EXCEPT ![e] = @ + 1]
  /\ UNCHANGED <<available, processed, handler, failures>>

Deliver(c, e) ==
  /\ handler[c].pc = "idle"
  /\ queue[e] > 0
  /\ queue' = [queue EXCEPT ![e] = @ - 1]
  /\ handler' = [handler EXCEPT ![c] = [pc |-> "check", event |-> e]]
  /\ UNCHANGED <<available, processed, copies, failures>>

(* The look-up in processed_events, outside the transaction.               *)
CheckProcessed(c) ==
  /\ handler[c].pc = "check"
  /\ IF handler[c].event \in processed THEN Ack(c) ELSE Goto(c, "tx") /\ UNCHANGED queue
  /\ UNCHANGED <<available, processed, copies, failures>>

(* INSERT INTO processed_events: a duplicate id aborts the transaction.    *)
MarkProcessed(e) ==
  /\ e \notin processed
  /\ processed' = processed \cup {e}

(* Mutant: seats are counted before the row is locked, off by one.         *)
ReserveSeatsUnchecked(c) ==
  LET e == handler[c].event IN
  /\ handler[c].pc = "tx" /\ Kind[e] = "reserve"
  /\ available + 1 >= Count[e]
  /\ available' = available - Count[e]
  /\ MarkProcessed(e)
  /\ Goto(c, "ack")
  /\ UNCHANGED <<copies, queue, failures>>

(* Mutant: the reservation does not record its event id.                   *)
ReserveSeatsUnrecorded(c) ==
  LET e == handler[c].event IN
  /\ handler[c].pc = "tx" /\ Kind[e] = "reserve"
  /\ available >= Count[e]
  /\ available' = available - Count[e]
  /\ Goto(c, "ack")
  /\ UNCHANGED <<processed, copies, queue, failures>>

(* handleReserveSeats: under the row lock of the flight.                   *)
ReserveSeats(c) ==
  LET e == handler[c].event IN
  /\ handler[c].pc = "tx" /\ Kind[e] = "reserve"
  /\ available >= Count[e]
  /\ available' = available - Count[e]
  /\ MarkProcessed(e)
  /\ Goto(c, "ack")
  /\ UNCHANGED <<copies, queue, failures>>

ConfirmSeats(c) ==
  LET e == handler[c].event IN
  /\ handler[c].pc = "tx" /\ Kind[e] = "confirm"
  /\ MarkProcessed(e)
  /\ Goto(c, "ack")
  /\ UNCHANGED <<available, copies, queue, failures>>

(* Mutant: a duplicate release is applied; only its id is not stored twice.*)
ReleaseSeatsTwice(c) ==
  LET e == handler[c].event IN
  /\ handler[c].pc = "tx" /\ Kind[e] = "release"
  /\ available' = available + Count[e]
  /\ processed' = processed \cup {e}
  /\ Goto(c, "ack")
  /\ UNCHANGED <<copies, queue, failures>>

(* handleReleaseSeats gives back whatever the event says.                  *)
ReleaseSeats(c) ==
  LET e == handler[c].event IN
  /\ handler[c].pc = "tx" /\ Kind[e] = "release"
  /\ available' = available + Count[e]
  /\ MarkProcessed(e)
  /\ Goto(c, "ack")
  /\ UNCHANGED <<copies, queue, failures>>

(* The transaction rolls back: too few seats, or a duplicate event id.     *)
Rejected(c) ==
  LET e == handler[c].event IN
  /\ handler[c].pc = "tx"
  /\ \/ Kind[e] = "reserve" /\ available < Count[e]
     \/ e \in processed
  /\ Requeue(c)
  /\ UNCHANGED <<available, processed, copies, failures>>

Acknowledge(c) ==
  /\ handler[c].pc = "ack"
  /\ Ack(c)
  /\ UNCHANGED <<available, processed, copies, failures>>

(* Mutant: the handler logs a database failure and does not throw.         *)
FailsSwallowed(c) ==
  /\ handler[c].pc # "idle"
  /\ failures < MaxFailures
  /\ failures' = failures + 1
  /\ Ack(c)
  /\ UNCHANGED <<available, processed, copies>>

(* A consumer dies before its acknowledgement, or the database fails.      *)
Fails(c) ==
  /\ handler[c].pc # "idle"
  /\ failures < MaxFailures
  /\ failures' = failures + 1
  /\ Requeue(c)
  /\ UNCHANGED <<available, processed, copies>>

(* x-message-ttl of the reserve queue: after 5 minutes in the queue a      *)
(* message goes to the dead letter exchange, where nobody handles it.      *)
ReservationExpires(e) ==
  /\ Kind[e] = "reserve"
  /\ queue[e] > 0
  /\ queue' = [queue EXCEPT ![e] = @ - 1]
  /\ UNCHANGED <<available, processed, copies, handler, failures>>

Handle(c) ==
  \/ CheckProcessed(c)
  \/ ReserveSeats(c) \/ ConfirmSeats(c) \/ ReleaseSeats(c)
  \/ Rejected(c) \/ Acknowledge(c)

Next ==
  \/ \E e \in Events : Publish(e) \/ ReservationExpires(e) \/ \E c \in Consumers : Deliver(c, e)
  \/ \E c \in Consumers : Handle(c) \/ Fails(c)

Spec == Init /\ [][Next]_vars

-----------------------------------------------------------------------------
(* Properties.                                                             *)
SeatsOf(kind) ==
  MapThenSumSet(LAMBDA e : Count[e], {e \in processed : Kind[e] = kind})

(* Every event counts once: whatever was published, delivered or retried   *)
(* twice, the inventory is the capacity less each processed reservation    *)
(* plus each processed release (the handlers' transactions).               *)
SeatsConserved == available = Capacity - SeatsOf("reserve") + SeatsOf("release")

(* A release has its own queue, apart from the one of reservations, and is *)
(* not checked against them: it may be carried out first, or alone.        *)
ReservationOf(e) == {r \in Events : Kind[r] = "reserve" /\ BookingOf[r] = BookingOf[e]}

Unreserved ==
  {e \in processed : Kind[e] = "release" /\ ~(ReservationOf(e) \subseteq processed)}

(* The flight never has fewer free seats than none, and more than it has   *)
(* seats only by what releases gave back whose reservation is not made     *)
(* (yet): no copy, retry or race of two handlers adds a seat (the check of *)
(* handleReserveSeats, the sum of handleReleaseSeats).                     *)
WithinCapacity ==
  available \in 0..(Capacity + MapThenSumSet(LAMBDA e : Count[e], Unreserved))

(* A published release is not lost: it is carried out, or a queue or a     *)
(* handler still has it, whatever redelivery, crash or lost race between   *)
(* two consumers it meets (handleReleaseSeats, which throws to be called   *)
(* again).                                                                 *)
ReleasesKept ==
  \A e \in Events : Kind[e] = "release" /\ copies[e] > 0 =>
    \/ e \in processed
    \/ queue[e] > 0
    \/ \E c \in Consumers : handler[c].pc # "idle" /\ handler[c].event = e
=============================================================================
